---------------------------- MODULE Spec2Model ----------------------------
(***************************************************************************)
(* MySQLSchemaImporter of ztechno_core (src/src/schema/MySQLSchemaImporter  *)
(* .ts): one call of applySchema, applyTables, applySpecificTables or       *)
(* validateSchema against a gateway (ZSQLService.query) that accepts or     *)
(* rejects every statement it is sent.                                      *)
(*                                                                         *)
(* A state holds the call's arguments, the position of the call in          *)
(* applySchema's body, the SchemaImportResult being built, and the          *)
(* statements sent to the gateway so far with the gateway's answer to each. *)
(***************************************************************************)
EXTENDS Integers, Sequences, FiniteSets, TLC

VARIABLES
    call,       \* the public method called and its arguments
    pc,         \* position of the call
    schema,     \* the schema applySchema works on
    opts,       \* applySchema's merged options
    result,     \* applySchema's SchemaImportResult
    kindIdx,    \* which of the six loops is running (index into KindOrder)
    idx,        \* position in the running loop's collection
    log,        \* statements sent to the gateway, each with its answer
    console,    \* the "[DRY RUN] Would create" lines written so far
    thrown,     \* the error caught by applySchema's outer catch
    outcome,    \* "running", "returned" or "raised": how the call ended
    report,     \* what validateSchema returned
    db,         \* the objects of the target database (where it is followed)
    round,      \* which of two calls in a row is running
    first,      \* the SchemaImportResult of the first of two calls
    task,       \* a call of one of the synchronous tools, with its arguments
    answer,     \* what that call returned
    databases,  \* the names of the databases of the server
    exists,     \* cloneSchema's `exists`: what databaseExists answered
    raised,     \* the error cloneSchema raised to its caller
    server,     \* the catalog of the database the extractor reads
    fetches,    \* the fetches extractFullSchema has issued, each with its state
    extraction, \* the position of the extractFullSchema call and how it ended
    idle        \* how many connections the service's pool holds when the call starts

vars == <<call, pc, schema, opts, result, kindIdx, idx, log, console, thrown,
          outcome, report, db, round, first, task, answer, databases, exists,
          raised, server, fetches, extraction, idle>>

\* the variables of the synchronous tools (export, load, compare, type mapping)
tools == <<task, answer>>

\* the variables of cloneSchema
cloning == <<databases, exists, raised>>

\* the variables of the extractor
extracting == <<server, fetches, extraction>>

\* what a single call of applySchema leaves alone
others == <<db, round, first, tools, cloning, extracting, idle>>

\* no tool is called
NoTask == [op |-> "none"]

\* no extraction is going on
NoServer == [databaseName |-> "none"]
NotExtracting == [pc |-> "idle"]

----------------------------------------------------------------------------
(* Bounds and input domains *)

\* the largest number of objects (of all kinds together) in a schema
MaxObjects == 2

\* object names; "ghost" names no object of any schema
Names == {"user", "order"}
GhostName == "ghost"

\* the name of the database the schema was extracted from, and another one
SourceDatabase == "src"
OtherDatabase == "dst"

----------------------------------------------------------------------------
(* The gateway *)

Ok == "ok"
NoError == "none"

\* the messages of the errors the gateway rejects a statement with: a DDL
\* statement with DDLError, a SET statement with that message or another one
\* (the code only ever compares messages for equality)
DDLError == "ER_REJECTED"
ErrMsgs == {DDLError, "ER_CONNECTION_LOST"}

\* the message of the TypeError raised by reading a property of undefined
TypeErrorMsg == "TypeError"

\* ZSQLService.query either resolves or rejects with the driver's error
GatewayOutcomes(op) ==
    IF op = "SET_FOREIGN_KEY_CHECKS" THEN {Ok} \cup ErrMsgs ELSE {Ok, DDLError}

Stmt(op, kind, name, res) == [op |-> op, kind |-> kind, name |-> name, res |-> res]

SetForeignKeyChecks(v, res) == Stmt("SET_FOREIGN_KEY_CHECKS", "session", v, res)

IsDDL(s) == s.op \in {"DROP", "CREATE"}

----------------------------------------------------------------------------
(* Schemas *)

KindSet == {"table", "view", "function", "procedure", "trigger", "event"}

\* (a variant with the first two blocks exchanged)
KindOrderViewsFirst == <<"view", "table", "function", "procedure", "trigger", "event">>
\* the order of applySchema's six blocks:
\* tables -> views -> functions -> procedures -> triggers -> events
KindOrder == <<"table", "view", "function", "procedure", "trigger", "event">>

CollectionOf(s, kind) ==
    CASE kind = "table" -> s.tables
      [] kind = "view" -> s.views
      [] kind = "function" -> s.functions
      [] kind = "procedure" -> s.procedures
      [] kind = "trigger" -> s.triggers
      [] kind = "event" -> s.events

\* an object with its required fields, or (complete = FALSE) with its name only;
\* a table also has the set of the table names its foreignKeys reference
Object(name, complete) == [name |-> name, complete |-> complete]
Table(name, complete) == [name |-> name, complete |-> complete, foreignKeys |-> {}]

\* a table whose foreignKeys reference the table named ref
TableWithForeignKey(name, ref) == [name |-> name, complete |-> TRUE, foreignKeys |-> {ref}]

Range(seq) == {seq[i] : i \in 1..Len(seq)}

NamesOf(coll) == [i \in 1..Len(coll) |-> coll[i].name]

IsInjective(seq) == \A i, j \in 1..Len(seq) : seq[i] = seq[j] => i = j

\* name lists in which no name occurs twice (names are unique within a kind)
NameLists == {q \in UNION {[1..n -> Names] : n \in 0..MaxObjects} : IsInjective(q)}

RECURSIVE SumLen(_, _)
SumLen(f, ks) ==
    IF ks = {} THEN 0
    ELSE LET k == CHOOSE x \in ks : TRUE IN Len(f[k]) + SumLen(f, ks \ {k})

NameSchemas == {f \in [KindSet -> NameLists] : SumLen(f, KindSet) <= MaxObjects}

Objects(q) == [i \in 1..Len(q) |-> Object(q[i], TRUE)]
Tables(q) == [i \in 1..Len(q) |-> Table(q[i], TRUE)]

MakeSchema(f) ==
    [databaseName |-> SourceDatabase,
     tables |-> Tables(f["table"]), views |-> Objects(f["view"]),
     functions |-> Objects(f["function"]), procedures |-> Objects(f["procedure"]),
     triggers |-> Objects(f["trigger"]), events |-> Objects(f["event"]),
     missing |-> {}]

WithCollection(s, kind, coll) ==
    CASE kind = "table" -> [s EXCEPT !.tables = coll]
      [] kind = "view" -> [s EXCEPT !.views = coll]
      [] kind = "function" -> [s EXCEPT !.functions = coll]
      [] kind = "procedure" -> [s EXCEPT !.procedures = coll]
      [] kind = "trigger" -> [s EXCEPT !.triggers = coll]
      [] kind = "event" -> [s EXCEPT !.events = coll]

\* schemas as the extractor builds them
CleanSchemas == {MakeSchema(f) : f \in NameSchemas}

\* schemas as JSON.parse may hand them over: the document lists only the
\* kind-collections that hold objects, or one object lacks its required fields
MissingCollections(s) ==
    {[s EXCEPT !.missing = {k \in KindSet : CollectionOf(s, k) = <<>>}]}

IncompleteObject(s) ==
    UNION {{WithCollection(s, k, [CollectionOf(s, k) EXCEPT ![i].complete = FALSE]) :
                i \in 1..Len(CollectionOf(s, k))} : k \in KindSet}

LoadedSchemas ==
    UNION {MissingCollections(s) \cup IncompleteObject(s) : s \in CleanSchemas}

\* schemas one table of which has a foreign key, to a table of the schema or not
ForeignKeyed(s) ==
    UNION {{[s EXCEPT !.tables[i] = TableWithForeignKey(s.tables[i].name, r)] :
                r \in Names \cup {GhostName}} : i \in 1..Len(s.tables)}

ForeignKeySchemas == UNION {ForeignKeyed(s) : s \in CleanSchemas}

\* schema.tables, schema.views, ... is undefined (s.missing: the kinds whose
\* collection the document lacks)
IsMissing(s, kind) == kind \in s.missing

\* a kind-collection is missing or an object lacks required fields
Malformed(s) ==
    \E k \in KindSet :
        \/ IsMissing(s, k)
        \/ \E i \in 1..Len(CollectionOf(s, k)) : ~CollectionOf(s, k)[i].complete

\* the tables with a foreign key to a table that is not in the schema
DanglingTables(s) ==
    IF IsMissing(s, "table") THEN {}
    ELSE {t \in Range(s.tables) :
            \E r \in t.foreignKeys : r \notin Range(NamesOf(s.tables))}

----------------------------------------------------------------------------
(* Options *)

CreateFlag(kind) ==
    CASE kind = "table" -> "createTables"
      [] kind = "view" -> "createViews"
      [] kind = "function" -> "createFunctions"
      [] kind = "procedure" -> "createProcedures"
      [] kind = "trigger" -> "createTriggers"
      [] kind = "event" -> "createEvents"

CreateFlags == {CreateFlag(k) : k \in KindSet}

BehaviourFlags == {"dropExisting", "skipErrors", "dryRun"}

defaultOptions ==
    [n \in BehaviourFlags \cup CreateFlags |-> IF n \in CreateFlags THEN TRUE ELSE FALSE]

\* { ...a, ...b }: b's properties over a's
Spread(a, b) ==
    [n \in DOMAIN a \cup DOMAIN b |-> IF n \in DOMAIN b THEN b[n] ELSE a[n]]

\* o.n is truthy: present and not false
Truthy(o, n) == n \in DOMAIN o /\ o[n] # FALSE

\* const opts = { ...defaultOptions, ...options }
MergeOptions(options) == Spread(defaultOptions, options)

Enabled(o, kind) == Truthy(o, CreateFlag(kind))

\* the options a caller passes: any of dropExisting, skipErrors, dryRun set
PlainOptions == {[n \in B |-> TRUE] : B \in SUBSET BehaviourFlags}

\* ... and at most one more property, one that bears on the call: for
\* applySchema, create<Kind>s false for a kind s has objects of, or
\* targetDatabase when s has a view without its definition; for applyTables and
\* applySpecificTables, which set the six create<Kind>s themselves, createTables
\* false when s has tables or createViews true when s has views
ExtraOptions(entry, s) ==
    IF entry = "applySchema"
    THEN {[n \in {CreateFlag(k)} |-> FALSE] : k \in {x \in KindSet : CollectionOf(s, x) # <<>>}}
            \cup {[n \in {"targetDatabase"} |-> OtherDatabase] :
                    i \in {x \in 1..Len(s.views) : ~s.views[x].complete}}
    ELSE {[n \in {"createTables"} |-> FALSE] : k \in {x \in {"table"} : s.tables # <<>>}}
            \cup {[n \in {"createViews"} |-> TRUE] : k \in {x \in {"view"} : s.views # <<>>}}

OptionInputs(entry, s) ==
    PlainOptions \cup {Spread(p, e) : p \in PlainOptions, e \in ExtraOptions(entry, s)}

----------------------------------------------------------------------------
(* The six create operations.  Each gives the set of its possible runs: the  *)
(* statements it sends with the gateway's answers, the line it writes to the *)
(* console, and the error it throws (NoError when it returns).               *)

Run(stmts, out, err) == [stmts |-> stmts, out |-> out, err |-> err]

Failed(res) == IF res = Ok THEN NoError ELSE res

\* await this.sql.query(sql), after the statements of `before`
Query(before, op, kind, name) ==
    {Run(Append(before, Stmt(op, kind, name, r)), <<>>, Failed(r)) : r \in GatewayOutcomes(op)}

\* [DROP ... IF EXISTS when doDrop;] build the CREATE statement, which throws a
\* TypeError when buildThrows; send it
DropAndCreate(kind, name, doDrop, buildThrows) ==
    LET drops == IF doDrop THEN Query(<<>>, "DROP", kind, name) ELSE {Run(<<>>, <<>>, NoError)}
        create(before) ==
            IF buildThrows THEN {Run(before, <<>>, TypeErrorMsg)}
            ELSE Query(before, "CREATE", kind, name)
    IN  {d \in drops : d.err # NoError}
            \cup UNION {create(d.stmts) : d \in {x \in drops : x.err = NoError}}

WouldCreate(kind, name) == {Run(<<>>, <<<<kind, name>>>>, NoError)}

\* (a variant of createTable without its dry-run return)
createTableNoDryRun(table, options) ==
    DropAndCreate("table", table.name, Truthy(options, "dropExisting"), ~table.complete)
createTable(table, options) ==
    IF Truthy(options, "dryRun") THEN WouldCreate("table", table.name)
    ELSE DropAndCreate("table", table.name, Truthy(options, "dropExisting"), ~table.complete)

\* sourceDatabase && targetDatabase && sourceDatabase !== targetDatabase
Retargets(options, sourceDatabase) ==
    "targetDatabase" \in DOMAIN options /\ options.targetDatabase # sourceDatabase

\* (a variant of createView that never drops the view first)
createViewNeverDrops(view, options, sourceDatabase) ==
    IF Truthy(options, "dryRun") THEN WouldCreate("view", view.name)
    ELSE DropAndCreate("view", view.name, FALSE,
                       Retargets(options, sourceDatabase) /\ ~view.complete)
createView(view, options, sourceDatabase) ==
    IF Truthy(options, "dryRun") THEN WouldCreate("view", view.name)
    ELSE DropAndCreate("view", view.name, Truthy(options, "dropExisting"),
                       Retargets(options, sourceDatabase) /\ ~view.complete)

\* (a variant that drops the function only when dropExisting is set)
createFunctionDropsIfAsked(func, options) ==
    IF Truthy(options, "dryRun") THEN WouldCreate("function", func.name)
    ELSE DropAndCreate("function", func.name, Truthy(options, "dropExisting"),
                       ~func.complete)
createFunction(func, options) ==
    IF Truthy(options, "dryRun") THEN WouldCreate("function", func.name)
    ELSE DropAndCreate("function", func.name, TRUE, ~func.complete)

createProcedure(proc, options) ==
    IF Truthy(options, "dryRun") THEN WouldCreate("procedure", proc.name)
    ELSE DropAndCreate("procedure", proc.name, TRUE, ~proc.complete)

createTrigger(trigger, options) ==
    IF Truthy(options, "dryRun") THEN WouldCreate("trigger", trigger.name)
    ELSE DropAndCreate("trigger", trigger.name, Truthy(options, "dropExisting"), FALSE)

createEvent(event, options) ==
    IF Truthy(options, "dryRun") THEN WouldCreate("event", event.name)
    ELSE DropAndCreate("event", event.name, Truthy(options, "dropExisting"), FALSE)

Create(kind, obj, options, sourceDatabase) ==
    CASE kind = "table" -> createTable(obj, options)
      [] kind = "view" -> createView(obj, options, sourceDatabase)
      [] kind = "function" -> createFunction(obj, options)
      [] kind = "procedure" -> createProcedure(obj, options)
      [] kind = "trigger" -> createTrigger(obj, options)
      [] kind = "event" -> createEvent(obj, options)

----------------------------------------------------------------------------
(* SchemaImportResult *)

EmptyResult ==
    [success |-> TRUE, tablesCreated |-> <<>>, viewsCreated |-> <<>>,
     functionsCreated |-> <<>>, proceduresCreated |-> <<>>, triggersCreated |-> <<>>,
     eventsCreated |-> <<>>, errors |-> <<>>, warnings |-> <<>>]

CreatedOf(r, kind) ==
    CASE kind = "table" -> r.tablesCreated
      [] kind = "view" -> r.viewsCreated
      [] kind = "function" -> r.functionsCreated
      [] kind = "procedure" -> r.proceduresCreated
      [] kind = "trigger" -> r.triggersCreated
      [] kind = "event" -> r.eventsCreated

\* result.<kind>sCreated.push(name)
PushCreated(r, kind, name) ==
    CASE kind = "table" -> [r EXCEPT !.tablesCreated = Append(@, name)]
      [] kind = "view" -> [r EXCEPT !.viewsCreated = Append(@, name)]
      [] kind = "function" -> [r EXCEPT !.functionsCreated = Append(@, name)]
      [] kind = "procedure" -> [r EXCEPT !.proceduresCreated = Append(@, name)]
      [] kind = "trigger" -> [r EXCEPT !.triggersCreated = Append(@, name)]
      [] kind = "event" -> [r EXCEPT !.eventsCreated = Append(@, name)]

\* `${kind}:${name}` and 'schema'
ObjectId(kind, name) == <<kind, name>>
SchemaId == <<"schema">>

\* result.errors.push({ object, error })
PushError(r, object, message) ==
    [r EXCEPT !.errors = Append(@, [object |-> object, error |-> message])]

\* (variants that never rethrow, and that rethrow whatever skipErrors is)
RethrowsNever(options) == FALSE
RethrowsAlways(options) == TRUE
\* if (!opts.skipErrors) throw error
Rethrows(options) == ~Truthy(options, "skipErrors")

\* (a variant of the outer catch that adds its 'schema' entry every time)
CaughtTwice(r, message) ==
    PushError([r EXCEPT !.success = FALSE], SchemaId, message)
\* the outer catch: success = false, and a 'schema' entry unless an entry with
\* the same message is already there
Caught(r, message) ==
    LET failed == [r EXCEPT !.success = FALSE]
    IN  IF \E i \in 1..Len(r.errors) : r.errors[i].error = message
        THEN failed
        ELSE PushError(failed, SchemaId, message)

\* (a variant that keeps the success flag as the run left it)
FinalSuccessStale(r) == r.success
\* result.success = result.errors.length === 0
FinalSuccess(r) == Len(r.errors) = 0

----------------------------------------------------------------------------
(* The wrappers' arguments to applySchema *)

\* (a variant in which the caller's options win over the six flags)
ApplyTablesOptionsUnder(options) ==
    Spread([n \in CreateFlags |-> n = "createTables"], options)
\* applyTables: { ...options, createTables: true, createViews: false, ... }
ApplyTablesOptions(options) ==
    Spread(options, [n \in CreateFlags |-> n = "createTables"])

\* (a variant that keeps every table)
FilteredSchemaUnfiltered(s, tableNames) ==
    [s EXCEPT !.views = <<>>, !.functions = <<>>, !.procedures = <<>>,
              !.triggers = <<>>, !.events = <<>>, !.missing = {}]
\* applySpecificTables: { ...schema, tables: schema.tables.filter(...), views: [], ... }
FilteredSchema(s, tableNames) ==
    [s EXCEPT !.tables = SelectSeq(s.tables, LAMBDA t : t.name \in tableNames),
              !.views = <<>>, !.functions = <<>>, !.procedures = <<>>,
              !.triggers = <<>>, !.events = <<>>, !.missing = {}]

\* validateSchema: { dryRun: true, skipErrors: true }
ValidateOptions == [n \in {"dryRun", "skipErrors"} |-> TRUE]

\* errors: result.errors.map(e => `${e.object}: ${e.error}`)
ValidationReport(r) ==
    [valid |-> r.success,
     errors |-> [i \in 1..Len(r.errors) |-> <<r.errors[i].object, r.errors[i].error>>],
     warnings |-> r.warnings]

----------------------------------------------------------------------------
(* The calls *)

\* tableNames of applySpecificTables: names of tables of s and a name of none
TableNameInputs(s) == SUBSET (Range(NamesOf(s.tables)) \cup {GhostName})

NoOptions == [n \in {} |-> TRUE]

Call(entry, s, options, tableNames) ==
    [entry |-> entry, schema |-> s, options |-> options, tableNames |-> tableNames]

Init ==
    /\ \/ \E e \in {"applySchema", "applyTables"} :
            \E s \in CleanSchemas \cup LoadedSchemas :
              \E o \in OptionInputs(e, s) : call = Call(e, s, o, {})
       \/ \E s \in CleanSchemas \cup LoadedSchemas :
            \E o \in OptionInputs("applySpecificTables", s) :
              \E t \in TableNameInputs(s) : call = Call("applySpecificTables", s, o, t)
       \/ \E s \in CleanSchemas \cup LoadedSchemas \cup ForeignKeySchemas :
            call = Call("validateSchema", s, NoOptions, {})
    /\ pc = "call"
    /\ schema = call.schema
    /\ opts = defaultOptions
    /\ result = EmptyResult
    /\ kindIdx = 1
    /\ idx = 1
    /\ log = <<>>
    /\ console = <<>>
    /\ thrown = NoError
    /\ outcome = "running"
    /\ report = <<>>
    /\ db = {}
    /\ round = 1
    /\ first = <<>>
    /\ databases = {SourceDatabase, OtherDatabase}
    /\ exists = FALSE
    /\ raised = <<>>
    /\ idle = 1
    /\ server = NoServer
    /\ fetches = <<>>
    /\ extraction = NotExtracting
    /\ task = NoTask
    /\ answer = <<>>

\* applySchema(s, options) up to its try block
Begin(s, options) ==
    /\ schema' = s
    /\ opts' = MergeOptions(options)
    /\ result' = EmptyResult
    /\ pc' = "disableFK"
    /\ UNCHANGED <<call, kindIdx, idx, log, console, thrown, outcome, report>>
    /\ UNCHANGED others

ApplySchema ==
    /\ pc = "call"
    /\ call.entry = "applySchema"
    /\ Begin(call.schema, call.options)

ApplyTables ==
    /\ pc = "call"
    /\ call.entry = "applyTables"
    /\ Begin(call.schema, ApplyTablesOptions(call.options))

ApplySpecificTables ==
    /\ pc = "call"
    /\ call.entry = "applySpecificTables"
    /\ \/ /\ ~IsMissing(call.schema, "table")
          /\ Begin(FilteredSchema(call.schema, call.tableNames),
                   ApplyTablesOptions(call.options))
       \/ /\ IsMissing(call.schema, "table")    \* undefined.filter
          /\ thrown' = TypeErrorMsg
          /\ outcome' = "raised"
          /\ pc' = "done"
          /\ UNCHANGED <<call, schema, opts, result, kindIdx, idx, log, console, report>>
          /\ UNCHANGED others

ValidateSchema ==
    /\ pc = "call"
    /\ call.entry = "validateSchema"
    /\ Begin(call.schema, ValidateOptions)

\* the object the loops reach next, from place i of kind number k on: the
\* blocks of disabled kinds and of missing or exhausted collections are passed
\* over; kind number Len(KindOrder) + 1 is the end of the last block
RECURSIVE NextObject(_, _, _, _)
NextObject(s, options, k, i) ==
    IF k > Len(KindOrder) THEN [kind |-> k, at |-> 1]
    ELSE IF /\ Enabled(options, KindOrder[k])
            /\ ~IsMissing(s, KindOrder[k])
            /\ i <= Len(CollectionOf(s, KindOrder[k]))
         THEN [kind |-> k, at |-> i]
         ELSE NextObject(s, options, k + 1, 1)

\* on to the next object, or to the re-enabling after the last one
Advance(k, i) ==
    LET n == NextObject(schema, opts, k, i)
    IN  /\ kindIdx' = n.kind
        /\ idx' = n.at
        /\ pc' = IF n.kind > Len(KindOrder) THEN "enableFK" ELSE "loop"

\* if (!opts.dryRun) await this.sql.query('SET FOREIGN_KEY_CHECKS = 0')
DisableForeignKeyChecks ==
    /\ pc = "disableFK"
    /\ \/ /\ Truthy(opts, "dryRun")
          /\ Advance(1, 1)
          /\ UNCHANGED <<log, thrown>>
       \/ /\ ~Truthy(opts, "dryRun")
          /\ \E r \in GatewayOutcomes("SET_FOREIGN_KEY_CHECKS") :
                /\ log' = Append(log, SetForeignKeyChecks("0", r))
                /\ \/ /\ r = Ok
                      /\ Advance(1, 1)
                      /\ UNCHANGED thrown
                   \/ /\ r # Ok
                      /\ pc' = "catch"
                      /\ thrown' = r
                      /\ UNCHANGED <<kindIdx, idx>>
    /\ UNCHANGED <<call, schema, opts, result, console, outcome, report>>
    /\ UNCHANGED others

\* if (opts.create<Kind>s && schema.<kind>s) for (const obj of schema.<kind>s)
\*   try { await this.create<Kind>(obj, opts); created.push(obj.name) }
\*   catch (error) { errors.push(...); if (!opts.skipErrors) throw error }
Loop(kind) ==
    /\ pc = "loop"
    /\ KindOrder[kindIdx] = kind
    /\ LET obj == CollectionOf(schema, kind)[idx]
       IN  \E run \in Create(kind, obj, opts, schema.databaseName) :
              /\ log' = log \o run.stmts
              /\ console' = console \o run.out
              /\ \/ /\ run.err = NoError
                    /\ result' = PushCreated(result, kind, obj.name)
                    /\ Advance(kindIdx, idx + 1)
                    /\ UNCHANGED thrown
                 \/ /\ run.err # NoError
                    /\ ~Rethrows(opts)
                    /\ result' = PushError(result, ObjectId(kind, obj.name), run.err)
                    /\ Advance(kindIdx, idx + 1)
                    /\ UNCHANGED thrown
                 \/ /\ run.err # NoError
                    /\ Rethrows(opts)
                    /\ result' = PushError(result, ObjectId(kind, obj.name), run.err)
                    /\ thrown' = run.err
                    /\ pc' = "catch"
                    /\ UNCHANGED <<kindIdx, idx>>
    /\ UNCHANGED <<call, schema, opts, outcome, report>>

CreateTables == Loop("table") /\ UNCHANGED others
CreateViews == Loop("view") /\ UNCHANGED others
CreateFunctions == Loop("function") /\ UNCHANGED others
CreateProcedures == Loop("procedure") /\ UNCHANGED others
CreateTriggers == Loop("trigger") /\ UNCHANGED others
CreateEvents == Loop("event") /\ UNCHANGED others

\* if (!opts.dryRun) await this.sql.query('SET FOREIGN_KEY_CHECKS = 1')
EnableForeignKeyChecks ==
    /\ pc = "enableFK"
    /\ \/ /\ Truthy(opts, "dryRun")
          /\ pc' = "return"
          /\ UNCHANGED <<log, thrown>>
       \/ /\ ~Truthy(opts, "dryRun")
          /\ \E r \in GatewayOutcomes("SET_FOREIGN_KEY_CHECKS") :
                /\ log' = Append(log, SetForeignKeyChecks("1", r))
                /\ IF r = Ok
                   THEN pc' = "return" /\ UNCHANGED thrown
                   ELSE pc' = "catch" /\ thrown' = r
    /\ UNCHANGED <<call, schema, opts, result, kindIdx, idx, console, outcome, report>>
    /\ UNCHANGED others

\* (a variant of the outer catch that passes the error on to the caller)
OuterCatchRethrows ==
    /\ pc = "catch"
    /\ pc' = "done"
    /\ outcome' = "raised"
    /\ UNCHANGED <<call, schema, opts, result, kindIdx, idx, log, console, thrown, report>>
    /\ UNCHANGED others
\* catch (error) { result.success = false; ... } of applySchema's outer try
OuterCatch ==
    /\ pc = "catch"
    /\ result' = Caught(result, thrown)
    /\ pc' = "return"
    /\ UNCHANGED <<call, schema, opts, kindIdx, idx, log, console, thrown, outcome, report>>
    /\ UNCHANGED others

\* result.success = result.errors.length === 0; return result
\* (validateSchema turns the result into its report)
Return ==
    /\ pc = "return"
    /\ result' = [result EXCEPT !.success = FinalSuccess(result)]
    /\ report' = IF call.entry = "validateSchema" THEN <<ValidationReport(result')>> ELSE <<>>
    /\ outcome' = "returned"
    /\ pc' = "done"
    /\ UNCHANGED <<call, schema, opts, kindIdx, idx, log, console, thrown>>
    /\ UNCHANGED others

Next ==
    \/ ApplySchema
    \/ ApplyTables
    \/ ApplySpecificTables
    \/ ValidateSchema
    \/ DisableForeignKeyChecks
    \/ CreateTables
    \/ CreateViews
    \/ CreateFunctions
    \/ CreateProcedures
    \/ CreateTriggers
    \/ CreateEvents
    \/ EnableForeignKeyChecks
    \/ OuterCatch
    \/ Return

Spec == Init /\ [][Next]_vars

----------------------------------------------------------------------------
(* Two calls of applySchema in a row against one target database, which      *)
(* starts empty and answers every statement by what it holds.                *)

\* the `kind` object named `name` of the database
DbObject(kind, name) == <<kind, name>>

\* a view whose definition selects from the objects of `uses`, and a trigger
\* ON `tableName`
ViewUsing(name, uses) == [name |-> name, complete |-> TRUE, uses |-> uses]
TriggerOn(name, tableName) == [name |-> name, complete |-> TRUE, tableName |-> tableName]

\* what the definition of view number i may select from: nothing, a table or a
\* function of the schema, or another of its views
UsesOf(s, i) ==
    {{}} \cup {{DbObject("table", n)} : n \in Range(NamesOf(s.tables))}
         \cup {{DbObject("function", n)} : n \in Range(NamesOf(s.functions))}
         \cup {{DbObject("view", s.views[j].name)} : j \in (1..Len(s.views)) \ {i}}

\* the schemas with what their views select from and the tables their triggers
\* are on (a table of the schema or not)
WithDependencies(s) ==
    {[s EXCEPT !.views = [i \in 1..Len(s.views) |-> ViewUsing(s.views[i].name, u[i])],
               !.triggers = [i \in 1..Len(s.triggers) |-> TriggerOn(s.triggers[i].name, t[i])]] :
        u \in {f \in [1..Len(s.views) -> UNION {UsesOf(s, i) : i \in 1..Len(s.views)}] :
                  \A i \in 1..Len(s.views) : f[i] \in UsesOf(s, i)},
        t \in [1..Len(s.triggers) -> Names]}

\* extracted from one database, the names of tables and views are distinct
ExtractedSchemas ==
    UNION {WithDependencies(s) :
             s \in {x \in CleanSchemas :
                      Range(NamesOf(x.tables)) \cap Range(NamesOf(x.views)) = {}}}

\* the objects that must exist for the CREATE statement of an object to be
\* accepted
Needs(s, kind, name) ==
    LET named == SelectSeq(CollectionOf(s, kind), LAMBDA o : o.name = name)
    IN  CASE kind = "view" -> named[1].uses
          [] kind = "trigger" -> {DbObject("table", named[1].tableName)}
          [] OTHER -> {}

\* the triggers of the schema on a table
TriggersOn(s, tableName) ==
    {DbObject("trigger", t.name) : t \in {x \in Range(s.triggers) : x.tableName = tableName}}

\* the database's answer to a statement: DROP ... IF EXISTS, SET and CREATE
\* TABLE IF NOT EXISTS are accepted; another CREATE is rejected when the object
\* exists or something it needs does not
Answer(d, s, st) ==
    IF st.op # "CREATE" \/ st.kind = "table" THEN Ok
    ELSE IF DbObject(st.kind, st.name) \notin d /\ Needs(s, st.kind, st.name) \subseteq d
         THEN Ok
         ELSE DDLError

\* the database after an accepted statement (its triggers go with a table)
Effect(d, s, st) ==
    CASE st.op = "CREATE" /\ st.res = Ok -> d \cup {DbObject(st.kind, st.name)}
      [] st.op = "DROP" /\ st.res = Ok ->
            d \ ({DbObject(st.kind, st.name)} \cup
                    (IF st.kind = "table" THEN TriggersOn(s, st.name) ELSE {}))
      [] OTHER -> d

\* the statements were answered by the database, one after the other
RECURSIVE Answered(_, _, _)
Answered(d, s, stmts) ==
    \/ stmts = <<>>
    \/ /\ stmts # <<>>
       /\ Head(stmts).res = Answer(d, s, Head(stmts))
       /\ Answered(Effect(d, s, Head(stmts)), s, Tail(stmts))

RECURSIVE After(_, _, _)
After(d, s, stmts) ==
    IF stmts = <<>> THEN d ELSE After(Effect(d, s, Head(stmts)), s, Tail(stmts))

\* the step's statements are answered by the database, which they change
OnDatabase ==
    LET sent == SubSeq(log', Len(log) + 1, Len(log'))
    IN  /\ Answered(db, schema, sent)
        /\ db' = After(db, schema, sent)
        /\ UNCHANGED <<round, first, tools, cloning, extracting, idle>>

\* options of the two calls: dropExisting and skipErrors, each set or left out
TwiceOptions == {[n \in B |-> TRUE] : B \in SUBSET {"dropExisting", "skipErrors"}}

InitTwice ==
    /\ \E s \in ExtractedSchemas : \E o \in TwiceOptions : call = Call("applySchema", s, o, {})
    /\ pc = "call"
    /\ schema = call.schema
    /\ opts = defaultOptions
    /\ result = EmptyResult
    /\ kindIdx = 1
    /\ idx = 1
    /\ log = <<>>
    /\ console = <<>>
    /\ thrown = NoError
    /\ outcome = "running"
    /\ report = <<>>
    /\ db = {}
    /\ round = 1
    /\ first = <<>>
    /\ databases = {SourceDatabase, OtherDatabase}
    /\ exists = FALSE
    /\ raised = <<>>
    /\ idle = 1
    /\ server = NoServer
    /\ fetches = <<>>
    /\ extraction = NotExtracting
    /\ task = NoTask
    /\ answer = <<>>

DisableForeignKeyChecksOnDatabase ==
    /\ pc = "disableFK"
    /\ DisableForeignKeyChecks
    /\ OnDatabase

CreateTablesOnDatabase == Loop("table") /\ OnDatabase
CreateViewsOnDatabase == Loop("view") /\ OnDatabase
CreateFunctionsOnDatabase == Loop("function") /\ OnDatabase
CreateProceduresOnDatabase == Loop("procedure") /\ OnDatabase
CreateTriggersOnDatabase == Loop("trigger") /\ OnDatabase
CreateEventsOnDatabase == Loop("event") /\ OnDatabase

EnableForeignKeyChecksOnDatabase ==
    /\ pc = "enableFK"
    /\ EnableForeignKeyChecks
    /\ OnDatabase

\* the caller keeps the first result and calls applySchema again, with the same
\* arguments
ApplyAgain ==
    /\ pc = "done"
    /\ round = 1
    /\ first' = <<result>>
    /\ round' = 2
    /\ pc' = "call"
    /\ result' = EmptyResult
    /\ kindIdx' = 1
    /\ idx' = 1
    /\ log' = <<>>
    /\ console' = <<>>
    /\ thrown' = NoError
    /\ outcome' = "running"
    /\ UNCHANGED <<call, schema, opts, report, db, tools, cloning, extracting, idle>>

NextTwice ==
    \/ ApplySchema
    \/ DisableForeignKeyChecksOnDatabase
    \/ CreateTablesOnDatabase
    \/ CreateViewsOnDatabase
    \/ CreateFunctionsOnDatabase
    \/ CreateProceduresOnDatabase
    \/ CreateTriggersOnDatabase
    \/ CreateEventsOnDatabase
    \/ EnableForeignKeyChecksOnDatabase
    \/ OuterCatch
    \/ Return
    \/ ApplyAgain

SpecTwice == InitTwice /\ [][NextTwice]_vars

----------------------------------------------------------------------------
(* cloneSchema: the target database is looked up, dropped and created as the  *)
(* options say and made the session's database, then the schema is applied    *)
(* to it.  createDatabase: the database is dropped if asked, created, and     *)
(* the schema cloned to it.                                                  *)

\* const opts = { createDatabase: true, dropDatabase: false, ...options }
CloneDefaults == [n \in {"createDatabase", "dropDatabase"} |-> n = "createDatabase"]
CloneOpts(options) == Spread(CloneDefaults, options)

\* the message of the Error thrown for a missing database that is not to be
\* created, and the Error the catch block throws in place of the one it caught
NoDatabaseMsg == "does not exist and createDatabase is false"
CloneError(targetDatabase, message) ==
    [failedToCloneTo |-> targetDatabase, message |-> message]

\* a statement about a database as a whole: the SELECT on
\* information_schema.SCHEMATA, DROP DATABASE, CREATE DATABASE, USE
DatabaseStmt(op, name, res) == Stmt(op, "database", name, res)

\* cloneSchema(sourceSchema, targetDatabase, options)
CloneCall(s, targetDatabase, options) ==
    [entry |-> "cloneSchema", schema |-> s, options |-> options, tableNames |-> {},
     targetDatabase |-> targetDatabase]

\* the options of a call: skipErrors or dryRun or neither, with createDatabase
\* and dropDatabase each left out, true or false
CloneOptionInputs ==
    {Spread(p, d) :
        p \in {[n \in B |-> TRUE] : B \in {{}, {"skipErrors"}, {"dryRun"}}},
        d \in UNION {[B -> BOOLEAN] : B \in SUBSET {"createDatabase", "dropDatabase"}}}

\* applySchema(sourceSchema, { ...options, targetDatabase: targetDatabase })
CloneApplyOptions(options, targetDatabase) ==
    Spread(options, [n \in {"targetDatabase"} |-> targetDatabase])

\* createDatabase(databaseName, schema, options)
CreateDatabaseCall(databaseName, s, options) ==
    [entry |-> "createDatabase", schema |-> s, options |-> options, tableNames |-> {},
     targetDatabase |-> databaseName]

\* const opts = { dropIfExists: false, ...options }
CreateDatabaseOpts(options) == Spread([n \in {"dropIfExists"} |-> FALSE], options)

\* the options of a createDatabase call: skipErrors or dryRun or neither, with
\* dropIfExists left out, true or false
CreateDatabaseOptionInputs ==
    {Spread(p, d) :
        p \in {[n \in B |-> TRUE] : B \in {{}, {"skipErrors"}, {"dryRun"}}},
        d \in UNION {[B -> BOOLEAN] : B \in SUBSET {"dropIfExists"}}}

\* cloneSchema(schema, databaseName,
\*             { ...options, createDatabase: false, dropDatabase: false })
Cloned(options) ==
    Spread(options, [n \in {"createDatabase", "dropDatabase"} |-> FALSE])

\* the options parameter of the running cloneSchema: the caller's, or the ones
\* createDatabase calls it with
CloneOptions ==
    IF call.entry = "createDatabase" THEN Cloned(call.options) ELSE call.options

\* an error that reaches the caller as it was thrown
Passed(message) == [message |-> message]

InitClone ==
    /\ \/ \E s \in CleanSchemas : \E o \in CloneOptionInputs :
            call = CloneCall(s, OtherDatabase, o)
       \/ \E s \in CleanSchemas : \E o \in CreateDatabaseOptionInputs :
            call = CreateDatabaseCall(OtherDatabase, s, o)
    /\ databases \in {{SourceDatabase}, {SourceDatabase, OtherDatabase}}
    /\ pc = "call"
    /\ schema = call.schema
    /\ opts = defaultOptions
    /\ result = EmptyResult
    /\ kindIdx = 1
    /\ idx = 1
    /\ log = <<>>
    /\ console = <<>>
    /\ thrown = NoError
    /\ outcome = "running"
    /\ report = <<>>
    /\ db = {}
    /\ round = 1
    /\ first = <<>>
    /\ task = NoTask
    /\ answer = <<>>
    /\ exists = FALSE
    /\ raised = <<>>
    /\ idle = 1
    /\ server = NoServer
    /\ fetches = <<>>
    /\ extraction = NotExtracting

\* (a variant that creates a missing database whatever createDatabase is)
EnsureCreatesAlways(e, o) ==
    IF ~e \/ Truthy(o, "dropDatabase")
    THEN pc' = "createDatabase" /\ UNCHANGED thrown
    ELSE pc' = "use" /\ UNCHANGED thrown
\* if (!exists || opts.dropDatabase) {
\*   if (opts.createDatabase) await this.createDatabaseIfNotExists(...)
\*   else throw new Error(`Database ... does not exist and createDatabase is false`) }
Ensure(e, o) ==
    IF ~e \/ Truthy(o, "dropDatabase")
    THEN IF Truthy(o, "createDatabase")
         THEN pc' = "createDatabase" /\ UNCHANGED thrown
         ELSE pc' = "cloneCatch" /\ thrown' = NoDatabaseMsg
    ELSE pc' = "use" /\ UNCHANGED thrown

\* const exists = await this.databaseExists(targetDatabase), and on to the
\* first statement after it
DatabaseExists ==
    /\ \/ pc = "call" /\ call.entry = "cloneSchema"
       \/ pc = "cloneSchema"
    /\ \E r \in GatewayOutcomes("SELECT") :
          /\ log' = Append(log, DatabaseStmt("SELECT", call.targetDatabase, r))
          /\ \/ /\ r = Ok
                /\ exists' = (call.targetDatabase \in databases)
                /\ IF exists' /\ Truthy(CloneOpts(CloneOptions), "dropDatabase")
                   THEN pc' = "dropDatabase" /\ UNCHANGED thrown
                   ELSE Ensure(exists', CloneOpts(CloneOptions))
             \/ /\ r # Ok
                /\ thrown' = r
                /\ pc' = "cloneCatch"
                /\ UNCHANGED exists
    /\ UNCHANGED <<call, schema, opts, result, kindIdx, idx, console, outcome, report,
                   db, round, first, tools, extracting, idle, databases, raised>>

\* await this.sql.query(`DROP DATABASE IF EXISTS ...`)
DropDatabase ==
    /\ pc = "dropDatabase"
    /\ \E r \in GatewayOutcomes("DROP") :
          /\ log' = Append(log, DatabaseStmt("DROP", call.targetDatabase, r))
          /\ \/ /\ r = Ok
                /\ databases' = databases \ {call.targetDatabase}
                /\ Ensure(exists, CloneOpts(CloneOptions))
             \/ /\ r # Ok
                /\ thrown' = r
                /\ pc' = "cloneCatch"
                /\ UNCHANGED databases
    /\ UNCHANGED <<call, schema, opts, result, kindIdx, idx, console, outcome, report,
                   db, round, first, tools, extracting, idle, exists, raised>>

\* createDatabaseIfNotExists: CREATE DATABASE IF NOT EXISTS ... CHARACTER SET ...
CreateDatabaseIfNotExists ==
    /\ pc = "createDatabase"
    /\ \E r \in GatewayOutcomes("CREATE") :
          /\ log' = Append(log, DatabaseStmt("CREATE", call.targetDatabase, r))
          /\ \/ /\ r = Ok
                /\ databases' = databases \cup {call.targetDatabase}
                /\ pc' = "use"
                /\ UNCHANGED thrown
             \/ /\ r # Ok
                /\ thrown' = r
                /\ pc' = "cloneCatch"
                /\ UNCHANGED databases
    /\ UNCHANGED <<call, schema, opts, result, kindIdx, idx, console, outcome, report,
                   db, round, first, tools, extracting, idle, exists, raised>>

\* await this.sql.query(`USE ...`), which a server without the database
\* rejects, and applySchema up to its try block
UseDatabase ==
    /\ pc = "use"
    /\ \E r \in (IF call.targetDatabase \in databases
                 THEN GatewayOutcomes("USE") ELSE {DDLError}) :
          /\ log' = Append(log, DatabaseStmt("USE", call.targetDatabase, r))
          /\ \/ /\ r = Ok
                /\ schema' = call.schema
                /\ opts' = MergeOptions(CloneApplyOptions(CloneOptions, call.targetDatabase))
                /\ result' = EmptyResult
                /\ pc' = "disableFK"
                /\ UNCHANGED thrown
             \/ /\ r # Ok
                /\ thrown' = r
                /\ pc' = "cloneCatch"
                /\ UNCHANGED <<schema, opts, result>>
    /\ UNCHANGED <<call, kindIdx, idx, console, outcome, report,
                   db, round, first, tools, extracting, idle, cloning>>

\* (a variant of the catch block that swallows the error)
CloneCatchSwallows ==
    /\ pc = "cloneCatch"
    /\ outcome' = "returned"
    /\ pc' = "done"
    /\ UNCHANGED <<call, schema, opts, result, kindIdx, idx, log, console, thrown, report,
                   db, round, first, tools, extracting, idle, cloning>>
\* catch (error) { throw new Error(`Failed to clone schema to ...: ...`) }
CloneCatch ==
    /\ pc = "cloneCatch"
    /\ raised' = <<CloneError(call.targetDatabase, thrown)>>
    /\ outcome' = "raised"
    /\ pc' = "done"
    /\ UNCHANGED <<call, schema, opts, result, kindIdx, idx, log, console, thrown, report,
                   db, round, first, tools, extracting, idle, databases, exists>>

\* createDatabase: if (opts.dropIfExists) await this.sql.query(`DROP DATABASE
\* IF EXISTS ...`), outside any try block
DropIfExists ==
    /\ pc = "call"
    /\ call.entry = "createDatabase"
    /\ Truthy(CreateDatabaseOpts(call.options), "dropIfExists")
    /\ \E r \in GatewayOutcomes("DROP") :
          /\ log' = Append(log, DatabaseStmt("DROP", call.targetDatabase, r))
          /\ \/ /\ r = Ok
                /\ databases' = databases \ {call.targetDatabase}
                /\ pc' = "newDatabase"
                /\ UNCHANGED <<thrown, raised, outcome>>
             \/ /\ r # Ok
                /\ thrown' = r
                /\ raised' = <<Passed(r)>>
                /\ outcome' = "raised"
                /\ pc' = "done"
                /\ UNCHANGED databases
    /\ UNCHANGED <<call, schema, opts, result, kindIdx, idx, console, report,
                   db, round, first, tools, extracting, idle, exists>>

\* createDatabase: await this.createDatabaseIfNotExists(databaseName, ...), and
\* on to cloneSchema
CreateDatabase ==
    /\ \/ pc = "newDatabase"
       \/ /\ pc = "call"
          /\ call.entry = "createDatabase"
          /\ ~Truthy(CreateDatabaseOpts(call.options), "dropIfExists")
    /\ \E r \in GatewayOutcomes("CREATE") :
          /\ log' = Append(log, DatabaseStmt("CREATE", call.targetDatabase, r))
          /\ \/ /\ r = Ok
                /\ databases' = databases \cup {call.targetDatabase}
                /\ pc' = "cloneSchema"
                /\ UNCHANGED <<thrown, raised, outcome>>
             \/ /\ r # Ok
                /\ thrown' = r
                /\ raised' = <<Passed(r)>>
                /\ outcome' = "raised"
                /\ pc' = "done"
                /\ UNCHANGED databases
    /\ UNCHANGED <<call, schema, opts, result, kindIdx, idx, console, report,
                   db, round, first, tools, extracting, idle, exists>>

NextClone ==
    \/ DropIfExists
    \/ CreateDatabase
    \/ DatabaseExists
    \/ DropDatabase
    \/ CreateDatabaseIfNotExists
    \/ UseDatabase
    \/ CloneCatch
    \/ DisableForeignKeyChecks
    \/ CreateTables
    \/ CreateViews
    \/ CreateFunctions
    \/ CreateProcedures
    \/ CreateTriggers
    \/ CreateEvents
    \/ EnableForeignKeyChecks
    \/ OuterCatch
    \/ Return

SpecClone == InitClone /\ [][NextClone]_vars

----------------------------------------------------------------------------
(* The service's connections: query takes a connection from the pool for     *)
(* each statement and releases it once the statement is answered.  A pool    *)
(* holds as many connections as were once in use at the same time (one, or   *)
(* more after concurrent queries such as extractFullSchema's), and hands     *)
(* its idle connections out in turn.                                         *)

\* the most connections the pool is taken to hold when the call starts
MaxConnections == 2

\* this.databaseName = options.database: the database the service's
\* connections are opened on
ServiceDatabase == SourceDatabase

\* const con = await this.getPoolConnection() ... con.release(): the connection
\* the i-th statement of a call runs on, the call being the pool's only user
ConnectionOf(i) == ((i - 1) % idle) + 1

\* the accepted statements of an operation sent before the i-th statement on
\* the connection the i-th runs on
SentBefore(i, op) ==
    {j \in 1..(i - 1) :
        ConnectionOf(j) = ConnectionOf(i) /\ log[j].op = op /\ log[j].res = Ok}

Latest(S) == CHOOSE j \in S : \A k \in S : k <= j

\* the session's FOREIGN_KEY_CHECKS ("1" unless set) and its selected
\* database when the i-th statement runs
ForeignKeyChecksAt(i) ==
    LET sets == SentBefore(i, "SET_FOREIGN_KEY_CHECKS")
    IN  IF sets = {} THEN "1" ELSE log[Latest(sets)].name

SelectedAt(i) ==
    LET uses == SentBefore(i, "USE")
    IN  IF uses = {} THEN ServiceDatabase ELSE log[Latest(uses)].name

InitSession ==
    /\ \/ \E s \in CleanSchemas : \E o \in CloneOptionInputs :
            call = CloneCall(s, OtherDatabase, o)
       \/ \E s \in CleanSchemas : \E o \in PlainOptions :
            call = Call("applySchema", s, o, {})
    /\ idle \in 1..MaxConnections
    /\ databases \in {{SourceDatabase}, {SourceDatabase, OtherDatabase}}
    /\ pc = "call"
    /\ schema = call.schema
    /\ opts = defaultOptions
    /\ result = EmptyResult
    /\ kindIdx = 1
    /\ idx = 1
    /\ log = <<>>
    /\ console = <<>>
    /\ thrown = NoError
    /\ outcome = "running"
    /\ report = <<>>
    /\ db = {}
    /\ round = 1
    /\ first = <<>>
    /\ task = NoTask
    /\ answer = <<>>
    /\ exists = FALSE
    /\ raised = <<>>
    /\ server = NoServer
    /\ fetches = <<>>
    /\ extraction = NotExtracting

NextSession ==
    \/ ApplySchema
    \/ DatabaseExists
    \/ DropDatabase
    \/ CreateDatabaseIfNotExists
    \/ UseDatabase
    \/ CloneCatch
    \/ DisableForeignKeyChecks
    \/ CreateTables
    \/ CreateViews
    \/ CreateFunctions
    \/ CreateProcedures
    \/ CreateTriggers
    \/ CreateEvents
    \/ EnableForeignKeyChecks
    \/ OuterCatch
    \/ Return

SpecSession == InitSession /\ [][NextSession]_vars

----------------------------------------------------------------------------
(* extractFullSchema: the fetches of the six kinds and of the database's     *)
(* character set are issued together; each sends its catalog queries one     *)
(* after the other, the queries of different fetches being answered in any   *)
(* order.  The call goes on when all have fulfilled or one has rejected.     *)

\* the promises of Promise.all([...]), in the order of the array
FetchOrder == <<"table", "view", "procedure", "function", "trigger", "event", "dbInfo">>

IncludeFlag(kind) ==
    CASE kind = "table" -> "includeTables"
      [] kind = "view" -> "includeViews"
      [] kind = "procedure" -> "includeProcedures"
      [] kind = "function" -> "includeFunctions"
      [] kind = "trigger" -> "includeTriggers"
      [] kind = "event" -> "includeEvents"

\* const defaultOptions = { includeTables: true, ..., includeEvents: true }
defaultExtractionOptions == [n \in {IncludeFlag(k) : k \in KindSet} |-> TRUE]

\* const finalOptions = { ...defaultOptions, ...options }
FinalOptions(options) == Spread(defaultExtractionOptions, options)

\* the options of a call: none, or one kind left out
ExtractionOptions ==
    {NoOptions} \cup {[n \in {IncludeFlag(k)} |-> FALSE] : k \in KindSet}

\* texts: SQL NULL, the empty text, the body of a routine as
\* information_schema.ROUTINES has it, and its statement as SHOW CREATE gives it
NullText == <<"NULL">>
EmptyText == <<>>
BodyOf(name) == <<"BEGIN", name, "END">>
CreateStatementOf(kind, name) == <<"CREATE", kind, name, "BEGIN", name, "END">>

\* a || b
OrElse(a, b) == IF a \in {NullText, EmptyText} THEN b ELSE a

\* the rows of information_schema.ROUTINES for the routines named by q, the
\* body of each there or NULL
RoutineRows(q) ==
    {[i \in 1..Len(q) |->
        [name |-> q[i], definition |-> IF h[i] THEN BodyOf(q[i]) ELSE NullText]] :
            h \in [1..Len(q) -> BOOLEAN]}

\* the row of information_schema.SCHEMATA
Latin1 == "latin1"
Utf8mb4 == "utf8mb4"
DatabaseRows == <<[characterSet |-> Latin1]>>

Rows(q) == [i \in 1..Len(q) |-> [name |-> q[i]]]

\* the names of the catalog, MaxObjects at most: of the tables, of the
\* procedures, of the functions, and of the views, triggers and events, which
\* go by the same names.  No name is a system table's (sys_, mysql_,
\* performance_schema_) and no tableFilter is given: extractTables skips no row.
CatalogGroups == {"table", "procedure", "function", "other"}
CatalogNames == {f \in [CatalogGroups -> NameLists] : SumLen(f, CatalogGroups) <= MaxObjects}

\* ... the body of each there
RoutineRowsWithBody(q) == [i \in 1..Len(q) |-> [name |-> q[i], definition |-> BodyOf(q[i])]]

\* the catalog of a database: the rows each catalog query returns
Server(tables, views, procedures, functions, triggers, events) ==
    [databaseName |-> SourceDatabase,
     tables |-> tables, views |-> views, procedures |-> procedures,
     functions |-> functions, triggers |-> triggers, events |-> events,
     database |-> DatabaseRows]

\* the catalogs extractFullSchema is followed on
Servers ==
    {Server(Rows(f["table"]), Rows(f["other"]), RoutineRowsWithBody(f["procedure"]),
            RoutineRowsWithBody(f["function"]), Rows(f["other"]), Rows(f["other"])) :
        f \in CatalogNames}

\* the catalogs extractProcedures and extractFunctions are followed on: the
\* same routines under both kinds, each with its body or without
RoutineServers ==
    {Server(<<>>, <<>>, p, p, <<>>, <<>>) : p \in UNION {RoutineRows(q) : q \in NameLists}}

\* the rows of the catalog query of a fetch
CatalogRows(s, kind) ==
    CASE kind = "table" -> s.tables
      [] kind = "view" -> s.views
      [] kind = "procedure" -> s.procedures
      [] kind = "function" -> s.functions
      [] kind = "trigger" -> s.triggers
      [] kind = "event" -> s.events
      [] kind = "dbInfo" -> s.database

\* a fetch: its catalog query is in flight ("querying"), the query number
\* `sub` for row number `at` of its catalog rows is ("looping"), or it has
\* settled; `value` is the array it builds and then returns, `answers` what
\* SHOW CREATE was answered with for the rows dealt with
Querying == [state |-> "querying", rows |-> <<>>, at |-> 1, sub |-> 1, value |-> <<>>,
             answers |-> <<>>, error |-> NoError]
Fulfilled(f, value) == [f EXCEPT !.state = "fulfilled", !.value = value]
Rejected(f, error) == [f EXCEPT !.state = "rejected", !.error = error]

\* Promise.resolve([])
Resolved == Fulfilled(Querying, <<>>)

\* the objects extractViews, extractTriggers and extractEvents map their rows to
Mapped(kind, rows) == [i \in 1..Len(rows) |-> [kind |-> kind, name |-> rows[i].name]]

\* { characterSet: result[0]?.characterSet || 'utf8mb4', ... }
DatabaseInfo(rows) ==
    [characterSet |-> IF rows = <<>> THEN Utf8mb4 ELSE rows[1].characterSet]

\* the four queries of extractTables for one table: extractTableColumns,
\* extractTableIndexes, extractTableForeignKeys, getTableCreateStatement
TableQueries == <<"columns", "indexes", "foreignKeys", "createStatement">>

\* the answers to SHOW CREATE PROCEDURE or FUNCTION: a row with the statement
\* ("statement"), no statement ("empty": no row, or a row whose statement is
\* NULL, createStmt[0]?.['Create ...'] being falsy for both), or a rejection
ShowCreateAnswers == {"statement", "empty", DDLError}

\* (a variant whose catch block drops the routine)
RoutineEntryDropped(kind, row, shown) ==
    IF shown = DDLError THEN <<>>
    ELSE <<[kind |-> kind, name |-> row.name,
            definition |-> OrElse(IF shown = "statement"
                                  THEN CreateStatementOf(kind, row.name)
                                  ELSE EmptyText,
                                  row.definition)]>>
\* try { const createStmt = await this.sql.query(`SHOW CREATE ...`)
\*       const fullDefinition = createStmt[0]?.['Create ...'] || proc.definition
\*       result.push({ name: proc.name, definition: fullDefinition, ... }) }
\* catch (error) { result.push({ ..., definition: proc.definition || '', ... }) }
RoutineEntry(kind, row, shown) ==
    IF shown = DDLError
    THEN <<[kind |-> kind, name |-> row.name,
            definition |-> OrElse(row.definition, EmptyText)]>>
    ELSE <<[kind |-> kind, name |-> row.name,
            definition |-> OrElse(IF shown = "statement"
                                  THEN CreateStatementOf(kind, row.name)
                                  ELSE EmptyText,
                                  row.definition)]>>

\* the answers to the query a fetch has in flight
QueryAnswers(kind, f) ==
    IF f.state = "looping" /\ kind \in {"procedure", "function"}
    THEN ShowCreateAnswers
    ELSE GatewayOutcomes("SELECT")

\* for (const row of rows): on to row number `at`, or return the result
Continue(f, rows, at, value) ==
    IF at > Len(rows)
    THEN Fulfilled([f EXCEPT !.rows = rows, !.at = at, !.sub = 1], value)
    ELSE [f EXCEPT !.state = "looping", !.rows = rows, !.at = at, !.sub = 1,
                   !.value = value]

\* the fetch f of a kind after the answer r to its query in flight.  The
\* catalog query of every fetch and the queries of extractTables are awaited
\* outside any try block; SHOW CREATE is awaited inside one.
FetchAfter(s, kind, f, r) ==
    CASE f.state = "querying" /\ r # Ok -> Rejected(f, r)
      [] f.state = "querying" /\ r = Ok /\ kind \in {"view", "trigger", "event"} ->
            Fulfilled(f, Mapped(kind, CatalogRows(s, kind)))
      [] f.state = "querying" /\ r = Ok /\ kind = "dbInfo" ->
            Fulfilled(f, DatabaseInfo(CatalogRows(s, kind)))
      [] f.state = "querying" /\ r = Ok /\ kind \in {"table", "procedure", "function"} ->
            Continue(f, CatalogRows(s, kind), 1, <<>>)
      [] f.state = "looping" /\ kind = "table" /\ r # Ok -> Rejected(f, r)
      [] f.state = "looping" /\ kind = "table" /\ r = Ok /\ f.sub < Len(TableQueries) ->
            [f EXCEPT !.sub = f.sub + 1]
      [] f.state = "looping" /\ kind = "table" /\ r = Ok /\ f.sub = Len(TableQueries) ->
            Continue(f, f.rows, f.at + 1,
                     Append(f.value, [kind |-> "table", name |-> f.rows[f.at].name]))
      [] f.state = "looping" /\ kind \in {"procedure", "function"} ->
            Continue([f EXCEPT !.answers = Append(f.answers, r)], f.rows, f.at + 1,
                     f.value \o RoutineEntry(kind, f.rows[f.at], r))

\* extractFullSchema(options)
ExtractCall(options) == [entry |-> "extractFullSchema", options |-> options]

\* the version SELECT VERSION() reports
ServerVersion == "8.0"

\* what the extractor leaves alone
outside == <<call, pc, schema, opts, result, kindIdx, idx, log, console, thrown,
             outcome, report, db, round, first, tools, cloning, idle>>

InitExtract ==
    /\ \E o \in ExtractionOptions : call = ExtractCall(o)
    /\ server \in Servers
    /\ fetches = <<>>
    /\ extraction = [pc |-> "call", value |-> <<>>, error |-> NoError]
    /\ pc = "idle"
    /\ schema = MakeSchema([k \in KindSet |-> <<>>])
    /\ opts = defaultOptions
    /\ result = EmptyResult
    /\ kindIdx = 1
    /\ idx = 1
    /\ log = <<>>
    /\ console = <<>>
    /\ thrown = NoError
    /\ outcome = "running"
    /\ report = <<>>
    /\ db = {}
    /\ round = 1
    /\ first = <<>>
    /\ task = NoTask
    /\ answer = <<>>
    /\ databases = {SourceDatabase, OtherDatabase}
    /\ exists = FALSE
    /\ raised = <<>>
    /\ idle = 1

\* Promise.all([finalOptions.includeTables ? this.extractTables(finalOptions)
\*                                         : Promise.resolve([]), ...,
\*              this.getDatabaseInfo()]): every fetch sends its catalog query
ExtractFullSchema ==
    /\ extraction.pc = "call"
    /\ fetches' = [k \in Range(FetchOrder) |->
                     IF k = "dbInfo" \/ Truthy(FinalOptions(call.options), IncludeFlag(k))
                     THEN Querying ELSE Resolved]
    /\ extraction' = [extraction EXCEPT !.pc = "joining"]
    /\ UNCHANGED <<server, outside>>

\* the promise of Promise.all after a fetch has moved: rejected with the error
\* of the first fetch that rejects, fulfilled when all have fulfilled.  The
\* call goes on at once: it raises, or sends the query of getMySQLVersion.
PromiseAll(fs, f) ==
    IF f.state = "rejected" THEN [pc |-> "raised", value |-> <<>>, error |-> f.error]
    ELSE IF \A k \in DOMAIN fs : fs[k].state = "fulfilled"
         THEN [pc |-> "version", value |-> <<>>, error |-> NoError]
         ELSE extraction

\* the query a fetch has in flight is answered
Answers(kind) ==
    /\ kind \in DOMAIN fetches
    /\ fetches[kind].state \in {"querying", "looping"}
    /\ \E r \in QueryAnswers(kind, fetches[kind]) :
          fetches' = [fetches EXCEPT ![kind] = FetchAfter(server, kind, fetches[kind], r)]

\* ... of a fetch of extractFullSchema.  (Once the call has raised, what the
\* other fetches still do has no bearing on it and is left out.)
Fetch(kind) ==
    /\ extraction.pc = "joining"
    /\ Answers(kind)
    /\ extraction' = PromiseAll(fetches', fetches'[kind])

ExtractTables == Fetch("table") /\ UNCHANGED <<server, outside>>
ExtractViews == Fetch("view") /\ UNCHANGED <<server, outside>>
ExtractProcedures == Fetch("procedure") /\ UNCHANGED <<server, outside>>
ExtractFunctions == Fetch("function") /\ UNCHANGED <<server, outside>>
ExtractTriggers == Fetch("trigger") /\ UNCHANGED <<server, outside>>
ExtractEvents == Fetch("event") /\ UNCHANGED <<server, outside>>
GetDatabaseInfo == Fetch("dbInfo") /\ UNCHANGED <<server, outside>>

\* const [tables, views, procedures, functions, triggers, events, dbInfo] = ...
Results(fs) == [i \in 1..Len(FetchOrder) |-> fs[FetchOrder[i]].value]

\* (a variant that takes the functions for the procedures)
AssembledFunctionsTwice(databaseName, all, version) ==
    [databaseName |-> databaseName,
     tables |-> all[1], views |-> all[2], procedures |-> all[4], functions |-> all[4],
     triggers |-> all[5], events |-> all[6],
     characterSet |-> all[7].characterSet, version |-> version]
\* return { databaseName: this.databaseName, tables, views, procedures, ...,
\*          characterSet: dbInfo.characterSet, ..., version: ... }
Assembled(databaseName, all, version) ==
    [databaseName |-> databaseName,
     tables |-> all[1], views |-> all[2], procedures |-> all[3], functions |-> all[4],
     triggers |-> all[5], events |-> all[6],
     characterSet |-> all[7].characterSet, version |-> version]

\* version: await this.getMySQLVersion(), and the return
GetMySQLVersion ==
    /\ extraction.pc = "version"
    /\ \E r \in GatewayOutcomes("SELECT") :
          extraction' =
            IF r = Ok
            THEN [pc |-> "returned",
                  value |-> <<Assembled(server.databaseName, Results(fetches), ServerVersion)>>,
                  error |-> NoError]
            ELSE [pc |-> "raised", value |-> <<>>, error |-> r]
    /\ UNCHANGED <<server, fetches, outside>>

NextExtract ==
    \/ ExtractFullSchema
    \/ ExtractTables
    \/ ExtractViews
    \/ ExtractProcedures
    \/ ExtractFunctions
    \/ ExtractTriggers
    \/ ExtractEvents
    \/ GetDatabaseInfo
    \/ GetMySQLVersion

SpecExtract == InitExtract /\ [][NextExtract]_vars

----------------------------------------------------------------------------
(* extractProcedures and extractFunctions, called by themselves *)

\* extractProcedures() or extractFunctions()
RoutinesCall(kind) == [entry |-> "extractRoutines", kind |-> kind]

InitRoutines ==
    /\ \E k \in {"procedure", "function"} :
          /\ call = RoutinesCall(k)
          /\ fetches = [x \in {k} |-> Querying]
    /\ server \in RoutineServers
    /\ extraction = [pc |-> "routines", value |-> <<>>, error |-> NoError]
    /\ pc = "idle"
    /\ schema = MakeSchema([k \in KindSet |-> <<>>])
    /\ opts = defaultOptions
    /\ result = EmptyResult
    /\ kindIdx = 1
    /\ idx = 1
    /\ log = <<>>
    /\ console = <<>>
    /\ thrown = NoError
    /\ outcome = "running"
    /\ report = <<>>
    /\ db = {}
    /\ round = 1
    /\ first = <<>>
    /\ task = NoTask
    /\ answer = <<>>
    /\ databases = {SourceDatabase, OtherDatabase}
    /\ exists = FALSE
    /\ raised = <<>>
    /\ idle = 1

\* the catalog query, or the SHOW CREATE of one routine, is answered
Routines(kind) ==
    /\ extraction.pc = "routines"
    /\ Answers(kind)

ExtractProceduresAlone == Routines("procedure") /\ UNCHANGED <<server, extraction, outside>>
ExtractFunctionsAlone == Routines("function") /\ UNCHANGED <<server, extraction, outside>>

NextRoutines ==
    \/ ExtractProceduresAlone
    \/ ExtractFunctionsAlone

SpecRoutines == InitRoutines /\ [][NextRoutines]_vars

----------------------------------------------------------------------------
(* The synchronous tools: exportToJSON and loadSchemaFromJSON, compareSchemas *)
(* and the type mapping of the TypeScript export.  A call is drawn with its   *)
(* arguments and answered in one step.                                       *)

\* JavaScript values: strings, Dates, undefined, null, booleans (written
\* "true" and "false"), objects and arrays
JString(x) == [tag |-> "string", val |-> x]
JDate(t) == [tag |-> "Date", val |-> t]
JUndefined == [tag |-> "undefined", val |-> "undefined"]
JNull == [tag |-> "null", val |-> "null"]
JArray(items) == [tag |-> "array", val |-> items]

\* an object is the list of its properties, in the order they were added
Property(key, value) == [key |-> key, value |-> value]
JObject(properties) == [tag |-> "object", val |-> properties]

\* { k1: fields.k1, k2: fields.k2, ... } for the keys in the order given
ObjectOf(keys, fields) == JObject([i \in 1..Len(keys) |-> Property(keys[i], fields[keys[i]])])

\* points in time, and Date.prototype.toISOString
Times == {"t1", "t2"}
toISOString(t) ==
    CASE t = "t1" -> "2024-01-01T00:00:00.000Z"
      [] t = "t2" -> "2024-06-30T12:30:00.000Z"

\* the nodes of a JSON text
TextString(x) == [json |-> "string", text |-> x]
TextNull == [json |-> "null", text |-> "null"]
TextBoolean(x) == [json |-> "boolean", text |-> x]
TextObject(members) == [json |-> "object", text |-> members]
TextArray(elements) == [json |-> "array", text |-> elements]

\* JSON.stringify(value): a Date is written as the string of its toJSON, the
\* properties of an object are written in their order, those whose value is
\* undefined left out; undefined in an array is written as null
RECURSIVE stringify(_)
stringify(v) ==
    CASE v.tag = "string" -> TextString(v.val)
      [] v.tag = "Date" -> TextString(toISOString(v.val))
      [] v.tag = "null" -> TextNull
      [] v.tag = "boolean" -> TextBoolean(v.val)
      [] v.tag = "object" ->
            LET written == SelectSeq(v.val, LAMBDA q : q.value.tag # "undefined")
            IN  TextObject([i \in 1..Len(written) |->
                                Property(written[i].key, stringify(written[i].value))])
      [] v.tag = "array" ->
            TextArray([i \in 1..Len(v.val) |->
                            IF v.val[i].tag = "undefined" THEN TextNull
                            ELSE stringify(v.val[i])])

\* JSON.parse(text), without a reviver: a string stays a string
RECURSIVE parse(_)
parse(t) ==
    CASE t.json = "string" -> JString(t.text)
      [] t.json = "null" -> JNull
      [] t.json = "boolean" -> [tag |-> "boolean", val |-> t.text]
      [] t.json = "object" ->
            JObject([i \in 1..Len(t.text) |-> Property(t.text[i].key, parse(t.text[i].value))])
      [] t.json = "array" -> JArray([i \in 1..Len(t.text) |-> parse(t.text[i])])

\* exportToJSON(schema) and loadSchemaFromJSON(jsonString)
exportToJSON(s) == stringify(s)
loadSchemaFromJSON(jsonString) == parse(jsonString)

\* the keys of an object, and o.f: undefined when o has no property f
Keys(o) == {o.val[i].key : i \in 1..Len(o.val)}
Field(o, f) ==
    IF f \in Keys(o) THEN SelectSeq(o.val, LAMBDA q : q.key = f)[1].value ELSE JUndefined

\* two values are equal field for field
RECURSIVE SameValue(_, _)
SameValue(a, b) ==
    /\ a.tag = b.tag
    /\ CASE a.tag = "object" ->
                \A f \in Keys(a) \cup Keys(b) : SameValue(Field(a, f), Field(b, f))
         [] a.tag = "array" ->
                /\ Len(a.val) = Len(b.val)
                /\ \A i \in 1..Len(a.val) : SameValue(a.val[i], b.val[i])
         [] OTHER -> a.val = b.val

\* the Date-typed and the optional fields of a schema as the extractor builds
\* it: extractedAt, version?, a routine's created and modified, a trigger's
\* created, an event's executeAt?
RoutineRecord(name, t) ==
    ObjectOf(<<"name", "created", "modified">>,
             [name |-> JString(name), created |-> JDate(t), modified |-> JDate(t)])
TriggerRecord(name, t) ==
    ObjectOf(<<"name", "created">>, [name |-> JString(name), created |-> JDate(t)])
EventRecord(name, type, executeAt) ==
    ObjectOf(<<"name", "type", "executeAt">>,
             [name |-> JString(name), type |-> JString(type), executeAt |-> executeAt])

\* version: left out, undefined or a string
SchemaRecord(at, procedures, triggers, events, version) ==
    ObjectOf(<<"databaseName", "procedures", "triggers", "events", "extractedAt">> \o version[1],
             Spread([databaseName |-> JString(SourceDatabase), procedures |-> JArray(procedures),
                     triggers |-> JArray(triggers), events |-> JArray(events),
                     extractedAt |-> JDate(at)],
                    version[2]))

SchemaRecords ==
    {SchemaRecord(at, p, t, e, v) :
        at \in Times,
        p \in {<<>>} \cup {<<RoutineRecord("user", x)>> : x \in Times},
        t \in {<<>>} \cup {<<TriggerRecord("user", x)>> : x \in Times},
        e \in {<<>>, <<EventRecord("user", "RECURRING", JUndefined)>>}
                \cup {<<EventRecord("user", "ONE TIME", JDate(x))>> : x \in Times},
        v \in {<<<<>>, NoOptions>>,
               <<<<"version">>, [version |-> JUndefined]>>,
               <<<<"version">>, [version |-> JString("8.0.36")]>>}}

Task(op, args) == [op |-> op, args |-> args]

\* mysqlTypeToTypeScript -------------------------------------------------

\* A text is the sequence of its characters.
\* text.includes(pattern)
includes(text, pattern) ==
    \E i \in 1..(Len(text) - Len(pattern) + 1) : SubSeq(text, i, i + Len(pattern) - 1) = pattern

\* text.toLowerCase(), for the capital letters that occur
LowerCase(c) ==
    CASE c = "B" -> "b" [] c = "O" -> "o" [] c = "L" -> "l" [] c = "E" -> "e"
      [] c = "A" -> "a" [] c = "N" -> "n"
      [] OTHER -> c
toLowerCase(text) == [i \in 1..Len(text) |-> LowerCase(text[i])]

\* the texts the mapping looks for
IntText == <<"i", "n", "t">>
DecimalText == <<"d", "e", "c", "i", "m", "a", "l">>
FloatText == <<"f", "l", "o", "a", "t">>
DoubleText == <<"d", "o", "u", "b", "l", "e">>
TinyInt1Text == <<"t", "i", "n", "y", "i", "n", "t", "(", "1", ")">>
BooleanText == <<"b", "o", "o", "l", "e", "a", "n">>
BoolText == <<"b", "o", "o", "l">>
DateText == <<"d", "a", "t", "e">>
TimeText == <<"t", "i", "m", "e">>
TimestampText == <<"t", "i", "m", "e", "s", "t", "a", "m", "p">>
JsonText == <<"j", "s", "o", "n">>
BlobText == <<"b", "l", "o", "b">>
BinaryText == <<"b", "i", "n", "a", "r", "y">>
EnumText == <<"e", "n", "u", "m">>
EnumOpenText == <<"e", "n", "u", "m", "(">>
TinyInt1Type == TinyInt1Text

\* text.split(','), v.trim() and v.replace(/'/g, '')
RECURSIVE split(_)
split(text) ==
    IF \A i \in 1..Len(text) : text[i] # ","
    THEN <<text>>
    ELSE LET at == CHOOSE i \in 1..Len(text) :
                        text[i] = "," /\ \A j \in 1..(i - 1) : text[j] # ","
         IN  <<SubSeq(text, 1, at - 1)>> \o split(SubSeq(text, at + 1, Len(text)))

RECURSIVE trim(_)
trim(text) ==
    IF text # <<>> /\ text[1] = " " THEN trim(Tail(text))
    ELSE IF text # <<>> /\ text[Len(text)] = " " THEN trim(SubSeq(text, 1, Len(text) - 1))
    ELSE text

Unquoted(text) == SelectSeq(text, LAMBDA c : c # "'")

\* mysqlType.match(/enum\((.*?)\)/i): what stands between the first "enum("
\* and the next ")", if there is such a place
EnumMatches(mysqlType) ==
    LET lower == toLowerCase(mysqlType)
    IN  {i \in 1..(Len(mysqlType) - Len(EnumOpenText) + 1) :
            /\ SubSeq(lower, i, i + Len(EnumOpenText) - 1) = EnumOpenText
            /\ \E j \in (i + Len(EnumOpenText))..Len(mysqlType) : mysqlType[j] = ")"}

EnumGroup(mysqlType) ==
    LET from == (CHOOSE i \in EnumMatches(mysqlType) :
                    \A k \in EnumMatches(mysqlType) : i <= k) + Len(EnumOpenText)
        to == CHOOSE j \in from..Len(mysqlType) :
                    mysqlType[j] = ")" /\ \A k \in from..(j - 1) : mysqlType[k] # ")"
    IN  SubSeq(mysqlType, from, to - 1)

\* the TypeScript types: the named ones, and the union 'v1' | ... | 'vn'
Named(ts) == [ts |-> ts, members |-> <<>>]
UnionOf(values) == [ts |-> "union", members |-> values]

mysqlTypeToTypeScript(mysqlType) ==
    LET type == toLowerCase(mysqlType)
    IN  IF \/ includes(type, IntText) \/ includes(type, DecimalText)
           \/ includes(type, FloatText) \/ includes(type, DoubleText)
        THEN Named("number")
        ELSE IF \/ includes(type, TinyInt1Text) \/ includes(type, BooleanText)
                \/ includes(type, BoolText)
        THEN Named("boolean")
        ELSE IF \/ includes(type, DateText) \/ includes(type, TimeText)
                \/ includes(type, TimestampText)
        THEN Named("Date | string")
        ELSE IF includes(type, JsonText)
        THEN Named("any")
        ELSE IF includes(type, BlobText) \/ includes(type, BinaryText)
        THEN Named("Buffer")
        ELSE IF includes(type, EnumText) /\ EnumMatches(mysqlType) # {}
        THEN LET values == split(EnumGroup(mysqlType))
             IN  UnionOf([i \in 1..Len(values) |-> Unquoted(trim(values[i]))])
        ELSE Named("string")

\* raw column types as information_schema gives them
TinyInt4Type == <<"t", "i", "n", "y", "i", "n", "t", "(", "4", ")">>
Int11Type == <<"i", "n", "t", "(", "1", "1", ")">>
Varchar255Type == <<"v", "a", "r", "c", "h", "a", "r", "(", "2", "5", "5", ")">>
DateTimeType == <<"d", "a", "t", "e", "t", "i", "m", "e">>
Decimal102Type == <<"d", "e", "c", "i", "m", "a", "l", "(", "1", "0", ",", "2", ")">>
LongBlobType == <<"l", "o", "n", "g", "b", "l", "o", "b">>
BooleanUpperType == <<"B", "O", "O", "L", "E", "A", "N">>
Char1Type == <<"c", "h", "a", "r", "(", "1", ")">>

Quoted(value) == <<"'">> \o value \o <<"'">>

RECURSIVE Joined(_)
Joined(values) ==
    IF Len(values) = 1 THEN Quoted(values[1])
    ELSE Quoted(values[1]) \o <<",">> \o Joined(Tail(values))

\* enum('v1',...,'vn')
EnumType(values) == EnumOpenText \o Joined(values) \o <<")">>

\* enumerated values, some of which contain "int" or "date"
EnumValues == {<<"a">>, <<"b">>, <<"p", "r", "i", "n", "t">>, <<"u", "p", "d", "a", "t", "e">>}

EnumValueLists ==
    {<<v>> : v \in EnumValues} \cup {<<v, w>> : v, w \in EnumValues}
        \cup {<<v, w, <<"c">>>> : v, w \in EnumValues}

RawTypes ==
    {TinyInt1Type, TinyInt4Type, Int11Type, Varchar255Type, DateTimeType, Decimal102Type,
     LongBlobType, BooleanUpperType, Char1Type, BoolText, JsonText, TimestampText}

\* a raw type, or an enum type given with its enumerated values
TypeTasks ==
    {Task("type", <<t, <<>>>>) : t \in RawTypes}
        \cup {Task("type", <<EnumType(vs), vs>>) : vs \in EnumValueLists}

\* compareSchemas --------------------------------------------------------

\* new Set(array): the elements in the order of their first occurrence
RECURSIVE SetOf(_)
SetOf(array) ==
    IF array = <<>> THEN <<>>
    ELSE LET front == SetOf(SubSeq(array, 1, Len(array) - 1))
             last == array[Len(array)]
         IN  IF last \in Range(front) THEN front ELSE Append(front, last)

\* set.has(x)
has(set, x) == x \in Range(set)

\* for (const n of these) if (!those.has(n)) list.push(n)
NotIn(these, those) == SelectSeq(these, LAMBDA n : ~has(those, n))

\* array.find(x => x.name === name), of tables and views
find(array, name) == SelectSeq(array, LAMBDA x : x.name = name)[1]

\* a column's name
ColumnName(c) == Field(c, "name").val
\* (a variant that takes the column at the head of the list)
findColumnFirst(columns, colName) == columns[1]
\* columns.find(c => c.name === colName)
findColumn(columns, colName) == SelectSeq(columns, LAMBDA c : ColumnName(c) = colName)[1]
ColumnNames(columns) == [i \in 1..Len(columns) |-> ColumnName(columns[i])]

\* (a variant that takes every pair of columns to differ)
ColumnsDifferAlways(oldCol, newCol) == TRUE
\* JSON.stringify(oldCol) !== JSON.stringify(newCol)
ColumnsDiffer(oldCol, newCol) == stringify(oldCol) # stringify(newCol)

\* (a variant that reports no column as removed)
RemovedColumnsNone(oldTable, newTable) == <<>>
\* for (const colName of oldColNames) if (!newColNames.has(colName)) ...
RemovedColumns(oldTable, newTable) ==
    NotIn(SetOf(ColumnNames(oldTable.columns)), SetOf(ColumnNames(newTable.columns)))

\* the entry of a table that both schemas have
TableDiff(oldTable, newTable) ==
    LET oldColNames == SetOf(ColumnNames(oldTable.columns))
        newColNames == SetOf(ColumnNames(newTable.columns))
    IN  [tableName |-> newTable.name,
         addedColumns |-> NotIn(newColNames, oldColNames),
         removedColumns |-> RemovedColumns(oldTable, newTable),
         modifiedColumns |->
            SelectSeq(newColNames,
                      LAMBDA c : /\ has(oldColNames, c)
                                 /\ ColumnsDiffer(findColumn(oldTable.columns, c),
                                                  findColumn(newTable.columns, c)))]

compareSchemas(oldSchema, newSchema) ==
    LET oldTableNames == SetOf(NamesOf(oldSchema.tables))
        newTableNames == SetOf(NamesOf(newSchema.tables))
        both == SelectSeq(newTableNames, LAMBDA n : has(oldTableNames, n))
        diffs == [i \in 1..Len(both) |->
                    TableDiff(find(oldSchema.tables, both[i]), find(newSchema.tables, both[i]))]
        oldViewNames == SetOf(NamesOf(oldSchema.views))
        newViewNames == SetOf(NamesOf(newSchema.views))
    IN  [addedTables |-> NotIn(newTableNames, oldTableNames),
         removedTables |-> NotIn(oldTableNames, newTableNames),
         modifiedTables |->
            SelectSeq(diffs, LAMBDA d : \/ Len(d.addedColumns) > 0
                                        \/ Len(d.removedColumns) > 0
                                        \/ Len(d.modifiedColumns) > 0),
         addedViews |-> NotIn(newViewNames, oldViewNames),
         removedViews |-> NotIn(oldViewNames, newViewNames),
         modifiedViews |->
            SelectSeq(oldViewNames,
                      LAMBDA v : /\ has(newViewNames, v)
                                 /\ find(oldSchema.views, v).definition
                                        # find(newSchema.views, v).definition)]

\* columns: as extractTableColumns builds them (collation undefined for a
\* column that is not of a character type), and with the same properties in
\* another order, as a JSON document may list them
ColumnRecord(name, type) ==
    ObjectOf(<<"name", "type">>, [name |-> JString(name), type |-> JString(type)])
ColumnRecordTypeFirst(name, type) ==
    ObjectOf(<<"type", "name">>, [name |-> JString(name), type |-> JString(type)])
ColumnRecordWith(name, type, collation) ==
    ObjectOf(<<"name", "type", "collation">>,
             [name |-> JString(name), type |-> JString(type), collation |-> collation])

IdColumns ==
    {ColumnRecord("id", "int"), ColumnRecord("id", "bigint"),
     ColumnRecordTypeFirst("id", "int"), ColumnRecordWith("id", "int", JUndefined)}
EmailColumns ==
    {ColumnRecord("email", "text"), ColumnRecordWith("email", "text", JString("utf8mb4_bin"))}

\* column lists: at most one column per name
ColumnLists ==
    {<<>>} \cup {<<c>> : c \in IdColumns \cup EmailColumns}
           \cup {<<c, d>> : c \in IdColumns, d \in EmailColumns}
           \cup {<<d, c>> : c \in IdColumns, d \in EmailColumns}

ComparedTable(name, columns) == [name |-> name, columns |-> columns]

\* a table with the rest of a TableDefinition: indexes, foreignKeys, engine,
\* collation, comment, createStatement
ComparedTableWith(name, columns, rest) ==
    [name |-> name, columns |-> columns,
     indexes |-> rest.indexes, foreignKeys |-> rest.foreignKeys, engine |-> rest.engine,
     collation |-> rest.collation, comment |-> rest.comment,
     createStatement |-> rest.createStatement]

InnoDBTable ==
    [indexes |-> <<>>, foreignKeys |-> <<>>, engine |-> "InnoDB",
     collation |-> "utf8mb4_unicode_ci", comment |-> "", createStatement |-> "create v1"]
MyISAMTable ==
    [indexes |-> <<"idx_email">>, foreignKeys |-> <<"fk_order">>, engine |-> "MyISAM",
     collation |-> "latin1_swedish_ci", comment |-> "users", createStatement |-> "create v2"]
ComparedView(name, definition) == [name |-> name, definition |-> definition]

\* table lists: the table user alone, or followed by a table order, or the
\* table account alone with the rest of its definition
TableLists ==
    {<<>>} \cup {<<ComparedTable("user", c)>> : c \in ColumnLists}
           \cup {<<ComparedTableWith("account", c, r)>> :
                    c \in ColumnLists, r \in {InnoDBTable, MyISAMTable}}
           \cup {<<ComparedTable("user", c), ComparedTable("order", d)>> :
                    c \in ColumnLists, d \in {<<>>, <<ColumnRecord("id", "int")>>}}

ViewLists ==
    {<<>>, <<ComparedView("active", "select 1")>>, <<ComparedView("active", "select 2")>>}

ComparedSchemas == {[tables |-> t, views |-> v] : t \in TableLists, v \in ViewLists}

CompareTasks == {Task("compare", <<o, n>>) : o, n \in ComparedSchemas}

\* exportToSQL, exportToTypeScript, exportToMarkdown ----------------------

\* A text of several lines is the list of its lines, a line the list of the
\* pieces of its template literal.

\* `${v}` for a string, a boolean, null and undefined
Shown(v) ==
    CASE v.tag = "null" -> "null"
      [] v.tag = "undefined" -> "undefined"
      [] OTHER -> v.val

\* v is truthy: neither undefined nor null nor false nor ''
JTruthy(v) ==
    /\ v.tag \notin {"undefined", "null"}
    /\ ~(v.tag = "boolean" /\ v.val = "false")
    /\ ~(v.tag = "string" /\ v.val = "")

\* `${o.f}`, `${o.f || d}` and o.f, an array
Str(o, f) == Shown(Field(o, f))
StrOr(o, f, d) == IF JTruthy(Field(o, f)) THEN Shown(Field(o, f)) ELSE d
Items(o, f) == Field(o, f).val

\* `${array.length}`
Count(array) ==
    CASE Len(array) = 0 -> "0"
      [] Len(array) = 1 -> "1"
      [] Len(array) = 2 -> "2"
      [] OTHER -> "3"

\* array.join(sep): the elements with sep between them
RECURSIVE join(_, _)
join(array, sep) ==
    IF Len(array) <= 1 THEN array
    ELSE <<Head(array), sep>> \o join(Tail(array), sep)

\* the lines pushed for each item of a list, one item after the other
RECURSIVE Flatten(_)
Flatten(lists) == IF lists = <<>> THEN <<>> ELSE Head(lists) \o Flatten(Tail(lists))
ForEach(items, lines(_)) == Flatten([i \in 1..Len(items) |-> lines(items[i])])

\* what an exporter does: it returns its text, or throws
Returning(text) == [threw |-> NoError, text |-> text]
Throwing(message) == [threw |-> message, text |-> <<>>]

\* value.toISOString is a function: of a Date, not of the string a Date is
\* loaded as
HasToISOString(v) == v.tag = "Date"

\* | name | type | nullable | default | key | extra | comment |
MarkdownColumn(col) ==
    <<"| ", Str(col, "name"), " | ", Str(col, "type"), " | ",
      IF JTruthy(Field(col, "nullable")) THEN "YES" ELSE "NO", " | ",
      StrOr(col, "defaultValue", "-"), " | ", StrOr(col, "key", "-"), " | ",
      StrOr(col, "extra", "-"), " | ", StrOr(col, "comment", "-"), " |">>

\* (a variant that lists every row of the index list)
uniqueIndexesEveryRow(indexes) == indexes
\* [...new Map(table.indexes.map(idx => [idx.name, idx])).values()]: one row
\* per name, names in the order of their first row, of each name its last row
uniqueIndexes(indexes) ==
    LET names == SetOf([i \in 1..Len(indexes) |-> Str(indexes[i], "name")])
        rows(n) == SelectSeq(indexes, LAMBDA i : Str(i, "name") = n)
    IN  [k \in 1..Len(names) |-> rows(names[k])[Len(rows(names[k]))]]

\* - **name** (UNIQUE): column, column
MarkdownIndex(indexes, index) ==
    LET members == SelectSeq(indexes, LAMBDA i : Str(i, "name") = Str(index, "name"))
        indexCols == join([k \in 1..Len(members) |-> Str(members[k], "columnName")], ", ")
        unique == IF JTruthy(Field(index, "nonUnique")) THEN "" ELSE " (UNIQUE)"
    IN  <<"- **", Str(index, "name"), "**", unique, ": ">> \o indexCols

MarkdownForeignKey(fk) ==
    <<"- **", Str(fk, "constraintName"), "**: ", Str(fk, "columnName"), " -> ",
      Str(fk, "referencedTableName"), ".", Str(fk, "referencedColumnName"),
      " (UPDATE: ", Str(fk, "updateRule"), ", DELETE: ", Str(fk, "deleteRule"), ")">>

ColumnsHeading == <<"#### Columns">>
ColumnsHead == <<"| Name | Type | Nullable | Default | Key | Extra | Comment |">>
ColumnsRule == <<"|------|------|----------|---------|-----|-------|---------|">>
IndexesHeading == <<"#### Indexes">>
ForeignKeysHeading == <<"#### Foreign Keys">>

\* the lines of one table of the documentation
MarkdownTable(table) ==
    LET indexes == Items(table, "indexes")
        unique == uniqueIndexes(indexes)
    IN  <<<<"### ", Str(table, "name")>>>>
        \o (IF JTruthy(Field(table, "comment"))
            THEN <<<<>>, <<"> ", Str(table, "comment")>>>> ELSE <<>>)
        \o <<<<>>,
             <<"**Engine:** ", Str(table, "engine"), " | **Collation:** ", Str(table, "collation")>>,
             <<>>, ColumnsHeading, <<>>, ColumnsHead, ColumnsRule>>
        \o [i \in 1..Len(Items(table, "columns")) |-> MarkdownColumn(Items(table, "columns")[i])]
        \o <<<<>>>>
        \o (IF Len(indexes) > 0
            THEN <<IndexesHeading, <<>>>>
                 \o [i \in 1..Len(unique) |-> MarkdownIndex(indexes, unique[i])]
                 \o <<<<>>>>
            ELSE <<>>)
        \o (IF Len(Items(table, "foreignKeys")) > 0
            THEN <<ForeignKeysHeading, <<>>>>
                 \o [i \in 1..Len(Items(table, "foreignKeys")) |->
                        MarkdownForeignKey(Items(table, "foreignKeys")[i])]
                 \o <<<<>>>>
            ELSE <<>>)

MarkdownView(view) ==
    <<<<"### ", Str(view, "name")>>, <<>>,
      <<"**Updatable:** ", IF JTruthy(Field(view, "isUpdatable")) THEN "Yes" ELSE "No">>, <<>>>>

MarkdownFunction(func) ==
    <<<<"### ", Str(func, "name")>>, <<>>, <<"**Returns:** ", Str(func, "returns")>>>>
    \o (IF JTruthy(Field(func, "comment"))
        THEN <<<<>>, <<"> ", Str(func, "comment")>>>> ELSE <<>>)
    \o <<<<>>>>

MarkdownProcedure(proc) ==
    <<<<"### ", Str(proc, "name")>>>>
    \o (IF JTruthy(Field(proc, "comment"))
        THEN <<<<>>, <<"> ", Str(proc, "comment")>>>> ELSE <<>>)
    \o <<<<>>>>

MarkdownTrigger(trigger) ==
    <<<<"### ", Str(trigger, "name")>>, <<>>,
      <<"**Table:** ", Str(trigger, "tableName"), " | **Timing:** ", Str(trigger, "timing"),
        " | **Event:** ", Str(trigger, "event")>>, <<>>>>

\* if (schemaData.<kind>s.length > 0) { heading with the count; each item }
MarkdownSection(items, heading, lines(_)) ==
    IF Len(items) > 0
    THEN <<<<heading, Count(items), ")">>, <<>>>> \o ForEach(items, lines)
    ELSE <<>>

\* exportToMarkdown(schema)
exportToMarkdown(s) ==
    IF ~HasToISOString(Field(s, "extractedAt")) THEN Throwing(TypeErrorMsg)
    ELSE Returning(
            <<<<"# Database Schema: ", Str(s, "databaseName")>>, <<>>,
              <<"**Extracted:** ", toISOString(Field(s, "extractedAt").val)>>,
              <<"**MySQL Version:** ", Str(s, "version")>>,
              <<"**Character Set:** ", Str(s, "characterSet")>>,
              <<"**Collation:** ", Str(s, "collation")>>, <<>>>>
            \o MarkdownSection(Items(s, "tables"), "## Tables (", MarkdownTable)
            \o MarkdownSection(Items(s, "views"), "## Views (", MarkdownView)
            \o MarkdownSection(Items(s, "functions"), "## Functions (", MarkdownFunction)
            \o MarkdownSection(Items(s, "procedures"), "## Stored Procedures (", MarkdownProcedure)
            \o MarkdownSection(Items(s, "triggers"), "## Triggers (", MarkdownTrigger))

\* (identifiers are written without their backquotes)
Rule == <<"-- --------------------------------------------------------">>

\* if (schemaData.<kind>s.length > 0) { the three heading lines; each item }
SQLSection(items, heading, lines(_)) ==
    IF Len(items) > 0
    THEN <<Rule, <<heading>>, Rule, <<>>>> \o ForEach(items, lines)
    ELSE <<>>

SQLTable(table) ==
    <<<<"-- Table: ", Str(table, "name")>>>>
    \o (IF JTruthy(Field(table, "createStatement"))
        THEN <<<<"DROP TABLE IF EXISTS ", Str(table, "name"), ";">>,
               <<Str(table, "createStatement"), ";">>>>
        ELSE <<>>)
    \o <<<<>>>>

SQLView(view) ==
    <<<<"-- View: ", Str(view, "name")>>,
      <<"DROP VIEW IF EXISTS ", Str(view, "name"), ";">>,
      <<"CREATE VIEW ", Str(view, "name"), " AS ", Str(view, "definition"), ";">>, <<>>>>

SQLFunction(func) ==
    <<<<"-- Function: ", Str(func, "name")>>,
      <<"DROP FUNCTION IF EXISTS ", Str(func, "name"), ";">>,
      <<"DELIMITER $$">>,
      <<"CREATE FUNCTION ", Str(func, "name"), "() RETURNS ", Str(func, "returns")>>,
      <<"BEGIN">>, <<Str(func, "definition")>>, <<"END$$">>, <<"DELIMITER ;">>, <<>>>>

SQLProcedure(proc) ==
    <<<<"-- Procedure: ", Str(proc, "name")>>,
      <<"DROP PROCEDURE IF EXISTS ", Str(proc, "name"), ";">>,
      <<"DELIMITER $$">>,
      <<"CREATE PROCEDURE ", Str(proc, "name"), "()">>,
      <<"BEGIN">>, <<Str(proc, "definition")>>, <<"END$$">>, <<"DELIMITER ;">>, <<>>>>

SQLTrigger(trigger) ==
    <<<<"-- Trigger: ", Str(trigger, "name"), " on ", Str(trigger, "tableName")>>,
      <<"DROP TRIGGER IF EXISTS ", Str(trigger, "name"), ";">>,
      <<"DELIMITER $$">>,
      <<"CREATE TRIGGER ", Str(trigger, "name"), "">>,
      <<Str(trigger, "timing"), " ", Str(trigger, "event"), " ON ", Str(trigger, "tableName"), "">>,
      <<"FOR EACH ROW">>, <<"BEGIN">>, <<Str(trigger, "statement")>>, <<"END$$">>,
      <<"DELIMITER ;">>, <<>>>>

\* exportToSQL(schema)
exportToSQL(s) ==
    IF ~HasToISOString(Field(s, "extractedAt")) THEN Throwing(TypeErrorMsg)
    ELSE Returning(
            <<<<"-- MySQL Database Schema Export">>,
              <<"-- Database: ", Str(s, "databaseName")>>,
              <<"-- Extracted: ", toISOString(Field(s, "extractedAt").val)>>,
              <<"-- MySQL Version: ", Str(s, "version")>>, <<>>,
              <<"SET NAMES ", Str(s, "characterSet"), ";">>,
              <<"SET FOREIGN_KEY_CHECKS = 0;">>, <<>>>>
            \o SQLSection(Items(s, "tables"), "-- Tables", SQLTable)
            \o SQLSection(Items(s, "views"), "-- Views", SQLView)
            \o SQLSection(Items(s, "functions"), "-- Functions", SQLFunction)
            \o SQLSection(Items(s, "procedures"), "-- Stored Procedures", SQLProcedure)
            \o SQLSection(Items(s, "triggers"), "-- Triggers", SQLTrigger)
            \o <<<<"SET FOREIGN_KEY_CHECKS = 1;">>>>)

\* toPascalCase(str), for the table names that occur
toPascalCase(str) ==
    CASE str = "user" -> "User"
      [] str = "order" -> "Order"
      [] OTHER -> str

\* the characters of a column type
Chars(type) ==
    CASE type = "int(11)" -> Int11Type
      [] type = "varchar(255)" -> Varchar255Type
      [] type = "tinyint(1)" -> TinyInt1Type

\*   name?: type // comment
TypeScriptColumn(column) ==
    <<"  ", Str(column, "name"), IF JTruthy(Field(column, "nullable")) THEN "?" ELSE "", ": ",
      mysqlTypeToTypeScript(Chars(Str(column, "type"))).ts,
      IF JTruthy(Field(column, "comment")) THEN " // " ELSE "",
      IF JTruthy(Field(column, "comment")) THEN Str(column, "comment") ELSE "">>

TypeScriptTable(table) ==
    <<<<"/**">>, <<" * Table: ", Str(table, "name")>>>>
    \o (IF JTruthy(Field(table, "comment")) THEN <<<<" * ", Str(table, "comment")>>>> ELSE <<>>)
    \o <<<<" */">>, <<"export interface ", toPascalCase(Str(table, "name")), " {">>>>
    \o [i \in 1..Len(Items(table, "columns")) |-> TypeScriptColumn(Items(table, "columns")[i])]
    \o <<<<"}">>, <<>>>>

\* exportToTypeScript(schema)
exportToTypeScript(s) ==
    IF ~HasToISOString(Field(s, "extractedAt")) THEN Throwing(TypeErrorMsg)
    ELSE Returning(
            <<<<"/**">>,
              <<" * Auto-generated TypeScript interfaces from MySQL database schema">>,
              <<" * Database: ", Str(s, "databaseName")>>,
              <<" * Generated: ", toISOString(Field(s, "extractedAt").val)>>,
              <<" */">>, <<>>>>
            \o ForEach(Items(s, "tables"), TypeScriptTable))

Exporters == {"exportToSQL", "exportToJSON", "exportToTypeScript", "exportToMarkdown"}

Export(exporter, s) ==
    CASE exporter = "exportToSQL" -> exportToSQL(s)
      [] exporter = "exportToJSON" -> Returning(exportToJSON(s))
      [] exporter = "exportToTypeScript" -> exportToTypeScript(s)
      [] exporter = "exportToMarkdown" -> exportToMarkdown(s)

\* schemas as extractFullSchema returns them ---------------------------------

JBoolean(b) == [tag |-> "boolean", val |-> IF b THEN "true" ELSE "false"]

ColumnDefinition(name, type, nullable, key, extra) ==
    ObjectOf(<<"name", "type", "nullable", "defaultValue", "extra", "comment",
               "characterSet", "collation", "key">>,
             [name |-> JString(name), type |-> JString(type), nullable |-> JBoolean(nullable),
              defaultValue |-> JNull, extra |-> JString(extra), comment |-> JString(""),
              characterSet |-> JNull, collation |-> JNull, key |-> JString(key)])

\* the rows of one index: one row per member column, in the order of
\* SEQ_IN_INDEX
IndexRow(name, columnName, nonUnique) ==
    ObjectOf(<<"name", "tableName", "columnName", "nonUnique", "indexType", "comment">>,
             [name |-> JString(name), tableName |-> JString("user"),
              columnName |-> JString(columnName), nonUnique |-> JBoolean(nonUnique),
              indexType |-> JString("BTREE"), comment |-> JString("")])
IndexRows(name, columnNames, nonUnique) ==
    [i \in 1..Len(columnNames) |-> IndexRow(name, columnNames[i], nonUnique)]

\* index lists as extractTableIndexes returns them (ORDER BY INDEX_NAME,
\* SEQ_IN_INDEX): the primary key or not, then an index on both columns, in
\* either order, unique or not, or none, then the unique key on email or not
IndexLists ==
    {p \o b \o u :
        p \in {<<>>, IndexRows("PRIMARY", <<"id">>, FALSE)},
        b \in {<<>>} \cup {IndexRows("idx_both", c, n) :
                              c \in {<<"id", "email">>, <<"email", "id">>}, n \in BOOLEAN},
        u \in {<<>>, IndexRows("uq_email", <<"email">>, FALSE)}}

ForeignKeyDefinition ==
    ObjectOf(<<"constraintName", "tableName", "columnName", "referencedTableName",
               "referencedColumnName", "updateRule", "deleteRule">>,
             [constraintName |-> JString("fk_order"), tableName |-> JString("user"),
              columnName |-> JString("id"), referencedTableName |-> JString("order"),
              referencedColumnName |-> JString("id"), updateRule |-> JString("CASCADE"),
              deleteRule |-> JString("RESTRICT")])

TableDefinition(name, columns, indexes, foreignKeys, comment) ==
    ObjectOf(<<"name", "columns", "indexes", "foreignKeys", "engine", "collation", "comment",
               "createStatement">>,
             [name |-> JString(name), columns |-> JArray(columns), indexes |-> JArray(indexes),
              foreignKeys |-> JArray(foreignKeys), engine |-> JString("InnoDB"),
              collation |-> JString("utf8mb4_unicode_ci"), comment |-> JString(comment),
              createStatement |-> JString("CREATE TABLE ...")])

IdColumn == ColumnDefinition("id", "int(11)", FALSE, "PRI", "auto_increment")
EmailColumn == ColumnDefinition("email", "varchar(255)", TRUE, "UNI", "")

UserTables ==
    {TableDefinition("user", c, i, f, m) :
        c \in {<<IdColumn>>, <<IdColumn, EmailColumn>>, <<EmailColumn, IdColumn>>},
        i \in IndexLists, f \in {<<>>, <<ForeignKeyDefinition>>}, m \in {"", "the users"}}

OrderTable == TableDefinition("order", <<IdColumn>>, IndexRows("PRIMARY", <<"id">>, FALSE), <<>>, "")

\* one object of each other kind, with the properties the exporters read
ViewDefinition ==
    ObjectOf(<<"name", "definition", "isUpdatable">>,
             [name |-> JString("active"), definition |-> JString("select 1"),
              isUpdatable |-> JBoolean(TRUE)])
FunctionDefinition(t) ==
    ObjectOf(<<"name", "definition", "returns", "comment", "created", "modified">>,
             [name |-> JString("total"), definition |-> JString("RETURN 1"),
              returns |-> JString("int(11)"), comment |-> JString(""),
              created |-> JDate(t), modified |-> JDate(t)])
ProcedureDefinition(t) ==
    ObjectOf(<<"name", "definition", "comment", "created", "modified">>,
             [name |-> JString("cleanup"), definition |-> JString("DELETE FROM user"),
              comment |-> JString("nightly"), created |-> JDate(t), modified |-> JDate(t)])
TriggerDefinition(t) ==
    ObjectOf(<<"name", "tableName", "timing", "event", "statement", "created">>,
             [name |-> JString("audit"), tableName |-> JString("user"),
              timing |-> JString("BEFORE"), event |-> JString("INSERT"),
              statement |-> JString("SET NEW.id = 1"), created |-> JDate(t)])

DatabaseSchema(tables, rest, t) ==
    ObjectOf(<<"databaseName", "tables", "views", "procedures", "functions", "triggers",
               "events", "characterSet", "collation", "extractedAt", "version">>,
             [databaseName |-> JString(SourceDatabase), tables |-> JArray(tables),
              views |-> JArray(IF rest THEN <<ViewDefinition>> ELSE <<>>),
              procedures |-> JArray(IF rest THEN <<ProcedureDefinition(t)>> ELSE <<>>),
              functions |-> JArray(IF rest THEN <<FunctionDefinition(t)>> ELSE <<>>),
              triggers |-> JArray(IF rest THEN <<TriggerDefinition(t)>> ELSE <<>>),
              events |-> JArray(<<>>), characterSet |-> JString("utf8mb4"),
              collation |-> JString("utf8mb4_unicode_ci"), extractedAt |-> JDate(t),
              version |-> JString("8.0.36")])

\* schemas to export: no table, the table user, or the tables user and order;
\* alone or with one object of each other kind
DatabaseSchemas ==
    {DatabaseSchema(t, o, "t1") :
        t \in {<<>>} \cup {<<u>> : u \in UserTables} \cup {<<u, OrderTable>> : u \in UserTables},
        o \in BOOLEAN}

\* an exporter called with a schema as extracted, or with the schema loaded
\* from its JSON export
ExportTasks ==
    {Task("export", <<e, s, loaded>>) : e \in Exporters, s \in DatabaseSchemas, loaded \in BOOLEAN}

RoundTripTasks == {Task("roundTrip", <<s>>) : s \in SchemaRecords}

InitTools ==
    /\ task \in RoundTripTasks \cup CompareTasks \cup TypeTasks \cup ExportTasks
    /\ answer = <<>>
    /\ call = Call("none", MakeSchema([k \in KindSet |-> <<>>]), NoOptions, {})
    /\ pc = "idle"
    /\ schema = call.schema
    /\ opts = defaultOptions
    /\ result = EmptyResult
    /\ kindIdx = 1
    /\ idx = 1
    /\ log = <<>>
    /\ console = <<>>
    /\ thrown = NoError
    /\ outcome = "running"
    /\ report = <<>>
    /\ db = {}
    /\ round = 1
    /\ first = <<>>
    /\ databases = {SourceDatabase, OtherDatabase}
    /\ exists = FALSE
    /\ raised = <<>>
    /\ idle = 1
    /\ server = NoServer
    /\ fetches = <<>>
    /\ extraction = NotExtracting

\* the variables of the importer and of its target database
importing == <<call, pc, schema, opts, result, kindIdx, idx, log, console, thrown,
               outcome, report, db, round, first, cloning, extracting, idle>>

\* loadSchemaFromJSON(await exportToJSON(schema))
RoundTrip ==
    /\ task.op = "roundTrip"
    /\ answer = <<>>
    /\ answer' = <<loadSchemaFromJSON(exportToJSON(task.args[1]))>>
    /\ UNCHANGED <<task, importing>>

\* compareSchemas(oldSchema, newSchema)
CompareSchemas ==
    /\ task.op = "compare"
    /\ answer = <<>>
    /\ answer' = <<compareSchemas(task.args[1], task.args[2])>>
    /\ UNCHANGED <<task, importing>>

\* mysqlTypeToTypeScript(column.type), as exportToTypeScript calls it
MysqlTypeToTypeScript ==
    /\ task.op = "type"
    /\ answer = <<>>
    /\ answer' = <<mysqlTypeToTypeScript(task.args[1])>>
    /\ UNCHANGED <<task, importing>>

\* exportToSQL, exportToJSON, exportToTypeScript or exportToMarkdown of a
\* schema, as extracted or as loadSchemaFromJSON(await exportToJSON(schema))
ExportSchema ==
    /\ task.op = "export"
    /\ answer = <<>>
    /\ answer' = <<Export(task.args[1],
                          IF task.args[3] THEN loadSchemaFromJSON(exportToJSON(task.args[2]))
                          ELSE task.args[2])>>
    /\ UNCHANGED <<task, importing>>

NextTools ==
    \/ ExportSchema
    \/ RoundTrip
    \/ CompareSchemas
    \/ MysqlTypeToTypeScript

SpecTools == InitTools /\ [][NextTools]_vars

----------------------------------------------------------------------------
(* Vocabulary of the properties *)

Started == pc # "call"
Done == pc = "done"
Returned == pc = "done" /\ outcome = "returned"

DryRun == Started /\ Truthy(opts, "dryRun")
SkipErrors == Started /\ Truthy(opts, "skipErrors")
FailFast == Started /\ ~Truthy(opts, "skipErrors")

\* the fixed order of the object kinds
KindRank(kind) ==
    CASE kind = "table" -> 1
      [] kind = "view" -> 2
      [] kind = "function" -> 3
      [] kind = "procedure" -> 4
      [] kind = "trigger" -> 5
      [] kind = "event" -> 6

\* the names of the objects of a kind that applySchema is to process
ToProcess(kind) ==
    IF Enabled(opts, kind) /\ ~IsMissing(schema, kind)
    THEN NamesOf(CollectionOf(schema, kind))
    ELSE <<>>

\* the failure entries of objects, and the names of the failed objects of a kind
ObjectErrors == SelectSeq(result.errors, LAMBDA e : e.object # SchemaId)
FailedOf(kind) ==
    LET es == SelectSeq(result.errors, LAMBDA e : e.object # SchemaId /\ e.object[1] = kind)
    IN  [i \in 1..Len(es) |-> es[i].object[2]]
ObjectFailed == Len(ObjectErrors) > 0

Processed(kind, name) ==
    name \in Range(CreatedOf(result, kind)) \cup Range(FailedOf(kind))

DDLOf(l) == SelectSeq(l, IsDDL)

ForeignKeyChecksDisabled ==
    Len(log) > 0 /\ log[1] = SetForeignKeyChecks("0", Ok)

----------------------------------------------------------------------------
(* C1: In every applySchema run DDL is issued kind by kind in the order       *)
(* tables, views, functions, procedures, triggers, events: a DDL statement   *)
(* of a later kind never precedes one of an earlier kind, and once a         *)
(* statement of some kind has been issued every object of every earlier      *)
(* enabled kind has already been dealt with (created or failed).             *)
C1_KindOrder ==
    /\ \A i, j \in 1..Len(log) :
          (i < j /\ IsDDL(log[i]) /\ IsDDL(log[j]))
              => KindRank(log[i].kind) <= KindRank(log[j].kind)
    /\ \A i \in 1..Len(log) : \A e \in KindSet :
          (IsDDL(log[i]) /\ KindRank(e) < KindRank(log[i].kind))
              => \A n \in Range(ToProcess(e)) : Processed(e, n)

\* a finished run that created a table and then a view
C1_Witness ==
    /\ Returned
    /\ \E i, j \in 1..Len(log) :
          /\ i < j
          /\ log[i] = Stmt("CREATE", "table", log[i].name, Ok)
          /\ log[j] = Stmt("CREATE", "view", log[j].name, Ok)

(* C2: Every non-dry-run applySchema call issues SET FOREIGN_KEY_CHECKS = 0   *)
(* before its first DDL statement, and, once it has ended, has issued SET    *)
(* FOREIGN_KEY_CHECKS = 1 after its last DDL statement, whatever the outcome *)
(* of the object creations and whatever skipErrors is: a finished apply that *)
(* disabled the checks never leaves them disabled.                           *)
C2_ForeignKeyChecksRestored ==
    /\ (Started /\ ~DryRun /\ DDLOf(log) # <<>>) => ForeignKeyChecksDisabled
    /\ (Done /\ Started /\ ~DryRun /\ ForeignKeyChecksDisabled)
          => log[Len(log)].op = "SET_FOREIGN_KEY_CHECKS" /\ log[Len(log)].name = "1"

(* C3: With skipErrors = false, once the creation of one object has failed   *)
(* no further DDL statement is issued: the rejected statement, if any, is    *)
(* the last statement of the run, and the statements issued never grow       *)
(* again.                                                                    *)
C3_FailFastStops ==
    /\ [](FailFast => \A i \in 1..Len(log) : log[i].res # Ok => i = Len(log))
    /\ [][(FailFast /\ ObjectFailed) => log' = log]_vars

\* a fail-fast run that ended after a failure with an object still untouched
C3_Witness ==
    /\ Returned /\ FailFast /\ ObjectFailed
    /\ \E k \in KindSet : \E n \in Range(ToProcess(k)) : ~Processed(k, n)

(* C4 as stated: with skipErrors = false the first object-creation failure   *)
(* is re-raised to the caller, the call ends with that error instead of      *)
(* returning an ImportResult.                                                *)
C4_FailureReRaised ==
    (Done /\ FailFast /\ ObjectFailed) => outcome = "raised"

(* C4 amended: with skipErrors = false the first object-creation failure     *)
(* ends the run but is caught inside applySchema: the call returns an        *)
(* ImportResult with success = false whose first failure entry is that       *)
(* object's, with the error's message.                                       *)
C4_FailureReturned ==
    (Done /\ FailFast /\ ObjectFailed)
        => /\ outcome = "returned"
           /\ result.success = FALSE
           /\ result.errors[1].object # SchemaId
           /\ result.errors[1].error = thrown

\* a fail-fast run in which a CREATE was rejected, after its return
C4_Witness ==
    /\ Returned /\ FailFast /\ ObjectFailed
    /\ \E i \in 1..Len(log) : log[i].op = "CREATE" /\ log[i].res # Ok

(* C5: With skipErrors = true and dryRun = false (and the checks disabled at *)
(* the start of the run) a failing object never stops the run: every object  *)
(* of every enabled kind is dealt with exactly once in schema order, each    *)
(* failing object has exactly one failure entry <kind>:<name>, each other    *)
(* object's name is in its kind's created list, and no object is in both.    *)
C5_SkipErrorsProcessesAll ==
    (Returned /\ SkipErrors /\ ~DryRun /\ ForeignKeyChecksDisabled)
        => /\ \A k \in KindSet :
                LET failed == Range(FailedOf(k))
                IN  /\ CreatedOf(result, k)
                          = SelectSeq(ToProcess(k), LAMBDA n : n \notin failed)
                    /\ FailedOf(k) = SelectSeq(ToProcess(k), LAMBDA n : n \in failed)
           /\ \A i, j \in 1..Len(ObjectErrors) :
                i < j => KindRank(ObjectErrors[i].object[1])
                            <= KindRank(ObjectErrors[j].object[1])

\* a run in which the first of two objects of a kind failed and the second
\* was created
C5_Witness ==
    /\ Returned /\ SkipErrors /\ ~DryRun
    /\ \E k \in KindSet :
          /\ Len(ToProcess(k)) = 2
          /\ FailedOf(k) = <<ToProcess(k)[1]>>
          /\ CreatedOf(result, k) = <<ToProcess(k)[2]>>

(* C6: Whenever applySchema returns an ImportResult, result.success is true  *)
(* if and only if result.errors is empty, an exception having been thrown    *)
(* and caught during the run or not.                                         *)
C6_SuccessIffNoErrors ==
    Returned => (result.success <=> Len(result.errors) = 0)

\* a returned result with failures collected although nothing was thrown
C6_Witness ==
    Returned /\ thrown = NoError /\ Len(result.errors) > 0 /\ ~result.success

(* C7: With dryRun = true applySchema sends no statement to the gateway, and *)
(* returns, for every enabled kind, a created list equal to the names of the *)
(* schema's objects of that kind in schema order, an empty failure list and  *)
(* success = true.                                                           *)
C7_DryRunSendsNothing ==
    DryRun
        => /\ log = <<>>
           /\ Done => /\ outcome = "returned"
                      /\ \A k \in KindSet : CreatedOf(result, k) = ToProcess(k)
                      /\ result.errors = <<>>
                      /\ result.success = TRUE

\* a finished dry run of applySchema over a schema with a table and a view
C7_Witness ==
    /\ Returned /\ DryRun /\ call.entry = "applySchema"
    /\ result.tablesCreated # <<>>
    /\ result.viewsCreated # <<>>

(* C8: In dry-run mode applySchema still validates the input shape: for a    *)
(* schema with a missing kind-collection or an object missing required       *)
(* fields the call ends with an error, and no object is reported as "would   *)
(* create".                                                                  *)
C8_DryRunValidatesShape ==
    (DryRun /\ Malformed(schema))
        => /\ console = <<>>
           /\ Done => outcome = "raised"

(* C9: validateSchema on a schema in which some table has a foreign key to a *)
(* table that is not among the schema's tables returns valid = false with an *)
(* error entry naming that table.                                            *)
C9_ValidateFindsDanglingForeignKey ==
    (Done /\ call.entry = "validateSchema" /\ DanglingTables(call.schema) # {})
        => /\ Len(report) = 1
           /\ report[1].valid = FALSE
           /\ \E i \in 1..Len(report[1].errors) : \E t \in DanglingTables(call.schema) :
                 report[1].errors[i][1] = ObjectId("table", t.name)

(* C10: applySpecificTables(S, names) issues table DDL only for the tables   *)
(* of S whose name is in names (names not in S are ignored without error),   *)
(* no DDL for any other object, the created lists of the other kinds are     *)
(* empty, and tablesCreated lists tables of S named in names in S's order:   *)
(* all of them when nothing failed.                                          *)
C10_SpecificTablesOnly ==
    (Done /\ call.entry = "applySpecificTables" /\ ~IsMissing(call.schema, "table"))
        => LET selected == SelectSeq(NamesOf(call.schema.tables),
                                     LAMBDA n : n \in call.tableNames)
           IN  /\ outcome = "returned"
               /\ \A i \in 1..Len(log) :
                     IsDDL(log[i]) => log[i].kind = "table" /\ log[i].name \in Range(selected)
               /\ \A i \in 1..Len(result.errors) :
                     result.errors[i].object = SchemaId
                         \/ \E n \in Range(selected) :
                               result.errors[i].object = ObjectId("table", n)
               /\ \A k \in KindSet \ {"table"} : CreatedOf(result, k) = <<>>
               /\ result.tablesCreated
                     = SelectSeq(selected, LAMBDA n : n \in Range(result.tablesCreated))
               /\ result.errors = <<>> => result.tablesCreated = selected

\* of the tables user and order, only order is named (with a name of no
\* table): order alone is created
C10_Witness ==
    /\ Returned /\ call.entry = "applySpecificTables" /\ ~DryRun
    /\ Range(NamesOf(call.schema.tables)) = {"user", "order"}
    /\ call.tableNames = {"order", GhostName}
    /\ result.tablesCreated = <<"order">>
    /\ result.errors = <<>>

C12_RoundTripEqual ==
    (task.op = "roundTrip" /\ answer # <<>>) => SameValue(answer[1], task.args[1])

\* an answered call compareSchemas(oldSchema, newSchema)
Compared == task.op = "compare" /\ answer # <<>>

(* C13: For every schema S, compareSchemas(S, S) returns empty addedTables,  *)
(* removedTables, modifiedTables, addedViews, removedViews and               *)
(* modifiedViews.                                                            *)
C13_CompareWithItself ==
    (Compared /\ task.args[1] = task.args[2])
        => /\ answer[1].addedTables = <<>>
           /\ answer[1].removedTables = <<>>
           /\ answer[1].modifiedTables = <<>>
           /\ answer[1].addedViews = <<>>
           /\ answer[1].removedViews = <<>>
           /\ answer[1].modifiedViews = <<>>

\* a schema with two tables, columns and a view compared with itself
C13_Witness ==
    /\ Compared /\ task.args[1] = task.args[2]
    /\ Len(task.args[1].tables) = 2
    /\ Len(task.args[1].tables[1].columns) = 2
    /\ Len(task.args[1].views) = 1

\* newSchema is oldSchema without column number j of its table number i
WithoutColumn(oldSchema, newSchema, i, j) ==
    LET cs == oldSchema.tables[i].columns
    IN  newSchema = [oldSchema EXCEPT
                        !.tables[i].columns = SubSeq(cs, 1, j - 1) \o SubSeq(cs, j + 1, Len(cs))]

(* C14: If S' equals S except that one column c is removed from table T,     *)
(* then compareSchemas(S, S').modifiedTables has exactly one entry, for T,   *)
(* whose removedColumns is [c] and whose addedColumns is empty, and          *)
(* addedTables and removedTables are empty.                                  *)
C14_RemovedColumnReported ==
    Compared =>
        \A i \in 1..Len(task.args[1].tables) :
            \A j \in 1..Len(task.args[1].tables[i].columns) :
                WithoutColumn(task.args[1], task.args[2], i, j)
                    => /\ Len(answer[1].modifiedTables) = 1
                       /\ answer[1].modifiedTables[1].tableName = task.args[1].tables[i].name
                       /\ answer[1].modifiedTables[1].removedColumns
                             = <<ColumnName(task.args[1].tables[i].columns[j])>>
                       /\ answer[1].modifiedTables[1].addedColumns = <<>>
                       /\ answer[1].addedTables = <<>>
                       /\ answer[1].removedTables = <<>>

\* of two tables the first lost the first of its two columns
C14_Witness ==
    /\ Compared
    /\ Len(task.args[1].tables) = 2
    /\ Len(task.args[1].tables[1].columns) = 2
    /\ WithoutColumn(task.args[1], task.args[2], 1, 1)
    /\ Len(answer[1].modifiedTables) = 1

(* C15: For a table present in both schemas, a column name present in both   *)
(* versions is listed in modifiedColumns if and only if at least one field   *)
(* of the two column records differs: two column records with the same value *)
(* for every field are never reported as modified.                           *)
C15_ModifiedIffFieldDiffers ==
    Compared =>
        \A t \in Range(NamesOf(task.args[1].tables)) \cap Range(NamesOf(task.args[2].tables)) :
            LET oldTable == find(task.args[1].tables, t)
                newTable == find(task.args[2].tables, t)
                entries == SelectSeq(answer[1].modifiedTables, LAMBDA d : d.tableName = t)
                modified == IF entries = <<>> THEN {} ELSE Range(entries[1].modifiedColumns)
            IN  \A c \in Range(ColumnNames(oldTable.columns))
                            \cap Range(ColumnNames(newTable.columns)) :
                    c \in modified
                        <=> ~SameValue(findColumn(oldTable.columns, c),
                                       findColumn(newTable.columns, c))

(* C16: In the type-declaration export a column whose raw type is tinyint(1) *)
(* is always mapped to the boolean type, never to the numeric type.          *)
C16_TinyInt1IsBoolean ==
    (task.op = "type" /\ answer # <<>> /\ task.args[1] = TinyInt1Type)
        => answer[1] = Named("boolean")

(* C17: In the type-declaration export every column of raw type              *)
(* enum(v1,...,vn) is mapped to the closed string-literal union              *)
(* 'v1' | ... | 'vn' of exactly its enumerated values, whatever those values *)
(* are (values whose text contains 'int' or 'date' included).                *)
C17_EnumIsUnionOfValues ==
    (task.op = "type" /\ answer # <<>> /\ task.args[2] # <<>>)
        => answer[1] = UnionOf(task.args[2])

\* the target database of a cloneSchema call does not exist and the call is not
\* to create it
CloneWithoutDatabase ==
    /\ call.entry = "cloneSchema"
    /\ call.targetDatabase \notin databases
    /\ ~Truthy(CloneOpts(call.options), "createDatabase")

\* C18: When cloneSchema is called for a target database that does not exist
\* and createDatabase is false, no DROP DATABASE, CREATE DATABASE, USE,
\* FOREIGN_KEY_CHECKS or object DDL statement is ever sent (only the lookup of
\* the database is), and the call ends by raising an error to its caller.
C18_NoDatabaseFailsBeforeDDL ==
    CloneWithoutDatabase =>
        [](/\ \A i \in 1..Len(log) : log[i].op = "SELECT"
           /\ pc \in {"call", "cloneCatch", "done"}
           /\ pc = "done" => (outcome = "raised" /\ raised # <<>>))

\* a call for a missing database with createDatabase false has ended with the
\* error of the failed precondition
C18_Witness ==
    /\ CloneWithoutDatabase
    /\ pc = "done"
    /\ outcome = "raised"
    /\ raised = <<CloneError(call.targetDatabase, NoDatabaseMsg)>>
    /\ log = <<DatabaseStmt("SELECT", call.targetDatabase, Ok)>>

\* extractFullSchema has returned a schema
Extracted == extraction.pc = "returned"

\* the kind is included in the extraction
Included(kind) == Truthy(FinalOptions(call.options), IncludeFlag(kind))

\* C19: In whatever order the queries of the concurrently issued fetches are
\* answered, the schema extractFullSchema returns holds for every kind exactly
\* what that kind's own fetch returned (the catalog's rows of the kind, in the
\* catalog's order) and nothing for a kind left out; and as soon as one fetch
\* has failed the call has raised and returns no schema, partial or not.
C19_FetchOrderInsensitive ==
    /\ Extracted =>
          /\ \A k \in KindSet :
                /\ fetches[k].state = "fulfilled"
                /\ CollectionOf(extraction.value[1], k) = fetches[k].value
                /\ ~Included(k) => CollectionOf(extraction.value[1], k) = <<>>
                /\ Included(k) =>
                      /\ k \notin {"procedure", "function"} =>
                            CollectionOf(extraction.value[1], k)
                                = Mapped(k, CatalogRows(server, k))
                      /\ NamesOf(CollectionOf(extraction.value[1], k))
                            = NamesOf(CatalogRows(server, k))
          /\ extraction.value[1].characterSet = fetches["dbInfo"].value.characterSet
    /\ (\E k \in DOMAIN fetches : fetches[k].state = "rejected") =>
          (extraction.pc = "raised" /\ extraction.value = <<>>)
    /\ extraction.pc # "returned" => extraction.value = <<>>

\* a schema with tables and views has been returned, their fetches having been
\* in flight together
C19_Witness ==
    /\ Extracted
    /\ extraction.value[1].tables # <<>>
    /\ extraction.value[1].views # <<>>
    /\ extraction.value[1].tables = fetches["table"].value
    /\ extraction.value[1].views = fetches["view"].value

\* the fetch of an extractProcedures or extractFunctions call, and the rows of
\* its catalog query
RoutineFetch == fetches[call.kind]
RoutineCatalog == CatalogRows(server, call.kind)

\* one entry per routine dealt with, in catalog order, and all of them once the
\* call has returned; the call fails only if its catalog query does
OneEntryPerRoutine ==
    /\ Len(RoutineFetch.value) = Len(RoutineFetch.answers)
    /\ \A i \in 1..Len(RoutineFetch.value) :
          /\ RoutineFetch.value[i].name = RoutineCatalog[i].name
          /\ RoutineFetch.value[i].kind = call.kind
    /\ RoutineFetch.state = "fulfilled" => Len(RoutineFetch.value) = Len(RoutineCatalog)
    /\ RoutineFetch.state = "rejected" => RoutineFetch.answers = <<>>

\* C20 as stated: extractProcedures and extractFunctions return one entry per
\* routine of the catalog, in catalog order, whether SHOW CREATE fails or not:
\* with the returned statement as definition on success, with the catalog body
\* on failure or an empty answer; no SHOW CREATE failure fails the extraction.
C20_RoutineFallback ==
    call.entry = "extractRoutines" =>
        /\ OneEntryPerRoutine
        /\ \A i \in 1..Len(RoutineFetch.value) :
              RoutineFetch.value[i].definition =
                  IF RoutineFetch.answers[i] = "statement"
                  THEN CreateStatementOf(call.kind, RoutineCatalog[i].name)
                  ELSE RoutineCatalog[i].definition

\* C20 amended: ... with the returned statement as definition on success, with
\* the catalog body on an empty answer, and on failure with the catalog body
\* or, where the catalog has no body (NULL), with the empty text; no SHOW
\* CREATE failure fails the extraction.
C20_RoutineFallbackOrEmpty ==
    call.entry = "extractRoutines" =>
        /\ OneEntryPerRoutine
        /\ \A i \in 1..Len(RoutineFetch.value) :
              RoutineFetch.value[i].definition =
                  CASE RoutineFetch.answers[i] = "statement" ->
                          CreateStatementOf(call.kind, RoutineCatalog[i].name)
                    [] RoutineFetch.answers[i] = "empty" -> RoutineCatalog[i].definition
                    [] RoutineFetch.answers[i] = DDLError ->
                          IF RoutineCatalog[i].definition = NullText
                          THEN EmptyText
                          ELSE RoutineCatalog[i].definition

\* two routines have been extracted, SHOW CREATE having failed for the first,
\* which has no body in the catalog, and succeeded for the second
C20_Witness ==
    /\ call.entry = "extractRoutines"
    /\ RoutineFetch.state = "fulfilled"
    /\ RoutineFetch.answers = <<DDLError, "statement">>
    /\ RoutineCatalog[1].definition = NullText
    /\ RoutineFetch.value[1].definition = EmptyText
    /\ RoutineFetch.value[2].definition = CreateStatementOf(call.kind, RoutineCatalog[2].name)

\* the call is one of applyTables and applySpecificTables
TablesOnlyCall == call.entry \in {"applyTables", "applySpecificTables"}

\* C22: applyTables and applySpecificTables never issue DDL for views,
\* functions, procedures, triggers or events, announce none in a dry run, and
\* keep those created lists empty, whatever options the caller passes
\* (createViews = true and createTables = false included).
C22_TablesOnly ==
    TablesOnlyCall =>
        /\ \A i \in 1..Len(log) : IsDDL(log[i]) => log[i].kind = "table"
        /\ \A i \in 1..Len(console) : console[i][1] = "table"
        /\ \A k \in KindSet \ {"table"} : CreatedOf(result, k) = <<>>

\* applyTables was passed createViews = true for a schema with a view and has
\* returned
C22_Witness ==
    /\ call.entry = "applyTables"
    /\ Returned
    /\ Truthy(call.options, "createViews")
    /\ call.schema.views # <<>>
    /\ call.schema.tables # <<>>
    /\ result.tablesCreated # <<>>

\* the object of the schema a statement is about, and whether a DROP is due
\* before its CREATE
ObjectOfStmt(st) ==
    CHOOSE o \in Range(CollectionOf(schema, st.kind)) : o.name = st.name
DropDue(kind) == kind \in {"function", "procedure"} \/ Truthy(opts, "dropExisting")

FailedAt == CollectionOf(schema, KindOrder[kindIdx])[idx]

C30_OneEntryOnFailure ==
    (Returned /\ FailFast /\ ~DryRun /\ ObjectFailed) =>
        /\ Len(result.errors) = 1
        /\ result.errors[1].object = ObjectId(KindOrder[kindIdx], FailedAt.name)
        /\ result.errors[1].error = thrown
        /\ \A k \in 1..Len(KindOrder) :
              CreatedOf(result, KindOrder[k]) =
                 IF k < kindIdx THEN ToProcess(KindOrder[k])
                 ELSE IF k = kindIdx
                      THEN SubSeq(ToProcess(KindOrder[k]), 1, idx - 1)
                      ELSE <<>>

\* a fail-fast run that created an object, failed on a later one and returned
C30_Witness ==
    /\ Returned /\ FailFast /\ ~DryRun /\ ObjectFailed
    /\ \E k \in KindSet : CreatedOf(result, k) # <<>>

\* the call is one of cloneSchema or createDatabase
CloneEntry == call.entry \in {"cloneSchema", "createDatabase"}

\* the target is to be dropped first: cloneSchema found it and dropDatabase is
\* set, or createDatabase was called with dropIfExists
Dropping ==
    \/ call.entry = "cloneSchema" /\ exists /\ Truthy(CloneOpts(call.options), "dropDatabase")
    \/ call.entry = "createDatabase" /\ Truthy(CreateDatabaseOpts(call.options), "dropIfExists")

\* statement i is the accepted USE of the target
UsedAt(i) == log[i] = DatabaseStmt("USE", call.targetDatabase, Ok)

\* a statement about the database as a whole was rejected
PreparationFailed ==
    \E i \in 1..Len(log) : log[i].kind = "database" /\ log[i].res # Ok

\* applySchema is running
Applying == pc \in {"disableFK", "loop", "enableFK", "catch", "return"}

(* C24: In cloneSchema and createDatabase every statement of the delegated    *)
(* applySchema comes after an accepted USE of the target, before which only  *)
(* accepted statements about the database were sent (after a DROP DATABASE   *)
(* and a CREATE DATABASE, in this order, when the target is to be dropped),  *)
(* and the target exists from then on; once a preparatory statement is       *)
(* rejected, applySchema is not entered, no object DDL is sent and the call  *)
(* ends by raising an error.                                                 *)
C24_PreparedBeforeApply ==
    CloneEntry =>
        /\ \A i \in 1..Len(log) :
              log[i].kind # "database" =>
                 \E j \in 1..(i - 1) :
                    /\ UsedAt(j)
                    /\ \A k \in 1..j : log[k].kind = "database" /\ log[k].res = Ok
        /\ \A j \in 1..Len(log) :
              UsedAt(j) =>
                 /\ call.targetDatabase \in databases
                 /\ Dropping =>
                       \E d \in 1..j : \E c \in (d + 1)..j :
                          /\ log[d] = DatabaseStmt("DROP", call.targetDatabase, Ok)
                          /\ log[c] = DatabaseStmt("CREATE", call.targetDatabase, Ok)
        /\ Applying => \E j \in 1..Len(log) : UsedAt(j)
        /\ PreparationFailed =>
              /\ \A i \in 1..Len(log) : log[i].kind = "database"
              /\ ~Applying
              /\ Done => (outcome = "raised" /\ raised # <<>>)

\* createDatabase with dropIfExists dropped, created and selected the target
\* and created a table in it
C24_Witness ==
    /\ call.entry = "createDatabase"
    /\ Dropping
    /\ Returned
    /\ result.tablesCreated # <<>>
    /\ \E j \in 1..Len(log) : UsedAt(j)

(* C25: cloneSchema and createDatabase called with dryRun = true send no DDL: *)
(* no DROP DATABASE, no CREATE DATABASE and no object DDL is in the log, and *)
(* the target database of a cloneSchema call is on the server exactly if it  *)
(* was there when the call looked it up.                                     *)
C25_DryRunCloneSendsNoDDL ==
    (CloneEntry /\ Truthy(call.options, "dryRun")) =>
        /\ \A i \in 1..Len(log) : ~IsDDL(log[i])
        /\ (call.entry = "cloneSchema" /\ Len(log) > 0 /\ log[1].res = Ok) =>
              (call.targetDatabase \in databases <=> exists)

(* C28: cloneSchema never leaves the target dropped: when a cloneSchema call *)
(* has ended, every accepted DROP DATABASE of the target in its log is       *)
(* followed by a CREATE DATABASE of the target.                              *)
C28_DroppedIsRecreated ==
    (call.entry = "cloneSchema" /\ Done) =>
        \A i \in 1..Len(log) :
           log[i] = DatabaseStmt("DROP", call.targetDatabase, Ok) =>
              \E j \in (i + 1)..Len(log) :
                 log[j].op = "CREATE" /\ log[j].kind = "database"
                 /\ log[j].name = call.targetDatabase

\* an object statement: a DROP or CREATE of a table, view, routine, trigger or
\* event
ObjectDDL(st) == IsDDL(st) /\ st.kind # "database"

(* C26: All statements of one applySchema or cloneSchema call chain run on   *)
(* one and the same session: every object DDL statement runs on the         *)
(* connection of all the statements before it, with FOREIGN_KEY_CHECKS = 0   *)
(* in effect on it and, in a cloneSchema call, with the target database      *)
(* selected on it.                                                          *)
C26_OneSession ==
    \A i \in 1..Len(log) :
       ObjectDDL(log[i]) =>
          /\ \A j \in 1..i : ConnectionOf(j) = ConnectionOf(i)
          /\ ForeignKeyChecksAt(i) = "0"
          /\ call.entry = "cloneSchema" => SelectedAt(i) = call.targetDatabase

\* the two schemas have the same views and the same tables in the same order,
\* each with the same column records, whatever the columns' order and the rest
\* of the table's definition
SameButTableRest(oldSchema, newSchema) ==
    /\ oldSchema.views = newSchema.views
    /\ Len(oldSchema.tables) = Len(newSchema.tables)
    /\ \A i \in 1..Len(oldSchema.tables) :
          /\ oldSchema.tables[i].name = newSchema.tables[i].name
          /\ Len(oldSchema.tables[i].columns) = Len(newSchema.tables[i].columns)
          /\ Range(oldSchema.tables[i].columns) = Range(newSchema.tables[i].columns)

(* C29: Two schemas that differ only in a table's indexes, foreign keys,     *)
(* engine, collation, comment, creation statement or column order are       *)
(* compared to six empty lists.                                              *)
C29_TableRestIgnored ==
    (Compared /\ SameButTableRest(task.args[1], task.args[2]))
        => /\ answer[1].addedTables = <<>>
           /\ answer[1].removedTables = <<>>
           /\ answer[1].modifiedTables = <<>>
           /\ answer[1].addedViews = <<>>
           /\ answer[1].removedViews = <<>>
           /\ answer[1].modifiedViews = <<>>

\* two versions of a table with the same two columns in another order, another
\* engine, other indexes, and a view
C29_Witness ==
    /\ Compared /\ SameButTableRest(task.args[1], task.args[2])
    /\ Len(task.args[1].tables) = 1
    /\ Len(task.args[1].tables[1].columns) = 2
    /\ task.args[1].tables[1].columns # task.args[2].tables[1].columns
    /\ task.args[1].tables[1].name = "account"
    /\ task.args[1].tables[1].engine # task.args[2].tables[1].engine
    /\ task.args[1].tables[1].indexes # task.args[2].tables[1].indexes
    /\ Len(task.args[1].views) = 1

\* an answered call of an exporter, and the text it returned
Exported(exporter) == task.op = "export" /\ task.args[1] = exporter /\ answer # <<>>
ExportedText == answer[1].text

\* reading the documentation: a line that opens a section or an object; the
\* lines of the table of a name; the lines from a position up to the next
\* empty line
OpensSection(line) ==
    /\ line # <<>>
    /\ line[1] \in {"### ", "## Tables (", "## Views (", "## Functions (",
                    "## Stored Procedures (", "## Triggers ("}

FirstAt(text, line) == CHOOSE i \in 1..Len(text) : text[i] = line /\ \A j \in 1..(i - 1) : text[j] # line

TableSection(text, name) ==
    LET start == FirstAt(text, <<"### ", name>>)
        later == {j \in (start + 1)..Len(text) : OpensSection(text[j])}
        stop == IF later = {} THEN Len(text) + 1 ELSE CHOOSE j \in later : \A k \in later : j <= k
    IN  SubSeq(text, start, stop - 1)

Block(text, from) ==
    LET blanks == {j \in from..Len(text) : text[j] = <<>>}
        stop == IF blanks = {} THEN Len(text) + 1 ELSE CHOOSE j \in blanks : \A k \in blanks : j <= k
    IN  SubSeq(text, from, stop - 1)

ColumnRows(section) == Block(section, FirstAt(section, ColumnsRule) + 1)
IndexEntries(section) ==
    IF \E i \in 1..Len(section) : section[i] = IndexesHeading
    THEN Block(section, FirstAt(section, IndexesHeading) + 2)
    ELSE <<>>

\* the member columns of the index of a name, in stored order, and whether the
\* index is unique
MemberColumns(indexes, name) ==
    LET rows == SelectSeq(indexes, LAMBDA i : Str(i, "name") = name)
    IN  [k \in 1..Len(rows) |-> Str(rows[k], "columnName")]
IsUnique(indexes, name) ==
    \A i \in 1..Len(indexes) :
       Str(indexes[i], "name") = name => Field(indexes[i], "nonUnique") = JBoolean(FALSE)

(* C21: In the documentation of an extracted schema every table has a        *)
(* Columns table with one row per column, in column order, and exactly one   *)
(* Indexes entry per distinct index name, which lists the index's member    *)
(* columns in stored order, joined by ', ', and is marked (UNIQUE) exactly   *)
(* if the index is unique.                                                  *)
C21_ColumnsAndIndexes ==
    (Exported("exportToMarkdown") /\ ~task.args[3]) =>
        /\ answer[1].threw = NoError
        /\ \A t \in 1..Len(Items(task.args[2], "tables")) :
              LET table == Items(task.args[2], "tables")[t]
                  columns == Items(table, "columns")
                  indexes == Items(table, "indexes")
                  names == {Str(indexes[i], "name") : i \in 1..Len(indexes)}
                  section == TableSection(ExportedText, Str(table, "name"))
                  rows == ColumnRows(section)
                  entries == IndexEntries(section)
              IN  /\ Len(rows) = Len(columns)
                  /\ \A i \in 1..Len(rows) : rows[i][2] = Str(columns[i], "name")
                  /\ Len(entries) = Cardinality(names)
                  /\ \A n \in names :
                        \E e \in 1..Len(entries) :
                           LET members == MemberColumns(indexes, n)
                           IN  /\ entries[e][2] = n
                               /\ entries[e][4] = " (UNIQUE)" <=> IsUnique(indexes, n)
                               /\ Len(entries[e]) = 4 + 2 * Len(members)
                               /\ \A k \in 1..Len(members) : entries[e][4 + 2 * k] = members[k]
                               /\ \A k \in 2..Len(members) : entries[e][3 + 2 * k] = ", "

\* the documentation of the tables user and order, user with two columns, its
\* primary key, a two-column index that is not unique and the unique key on
\* email
C21_Witness ==
    /\ Exported("exportToMarkdown") /\ ~task.args[3]
    /\ Len(Items(task.args[2], "tables")) = 2
    /\ LET table == Items(task.args[2], "tables")[1]
       IN  /\ Len(Items(table, "columns")) = 2
           /\ Len(Items(table, "indexes")) = 4
           /\ ~IsUnique(Items(table, "indexes"), "idx_both")
           /\ MemberColumns(Items(table, "indexes"), "idx_both") = <<"email", "id">>
           /\ Len(IndexEntries(TableSection(ExportedText, "user"))) = 3

(* C27: A schema loaded from its JSON export can be consumed by every        *)
(* exporter: exportToSQL, exportToTypeScript, exportToMarkdown and           *)
(* exportToJSON each return a text for it, none throws.                      *)
C27_LoadedSchemaExports ==
    (task.op = "export" /\ task.args[3] /\ answer # <<>>) => answer[1].threw = NoError

=============================================================================
